---- MODULE Spec2Model ----
(***************************************************************************)
(* A model of xplorts: the growth computation of growthcomps.growth_vars   *)
(* (period-on-period, cumulative and revision growth of the columns of a   *)
(* data frame), dutils.compare, the growth components, the browser side    *)
(* callbacks of SlideSelect, link_widget_to_lines and                      *)
(* link_widgets_to_groupfilters, the output file and the components of the *)
(* command line programs, the stacks of bokeh_stacks and stacks_util,      *)
(* RevisedTS and its revisions, the building of the snapshot chart, the    *)
(* selection callback of the heatmap, the runs of stacks, snapcomp and     *)
(* tscomp, and unpack_data_varnames.                                       *)
(*                                                                         *)
(* A data frame is a sequence of rows.  A row is a record                  *)
(*    [idx, row, by, date, x]                                              *)
(* idx is the row's index label, row the observation it holds (its         *)
(* position in the frame growth_vars was called with), by the split        *)
(* factor, date the value of date_var and x the value of the one           *)
(* requested column.                                                       *)
(*                                                                         *)
(* A float is modelled as an extended rational <<n, d>>: n/d in lowest     *)
(* terms with d > 0, or <<1, 0>> and <<-1, 0>> for the two infinities, or  *)
(* <<0, 0>> for NaN (a missing value).  Rounding is not modelled.          *)
(***************************************************************************)
EXTENDS Integers, Sequences, FiniteSets, TLC

VARIABLES
    data,       \* the frame growth_vars is called with
    other,      \* the baseline frame of revision mode (<<>> otherwise)
    mode,       \* "none" before the call, then "first", "pop" or "rev"
    useBy,      \* whether a by column is given
    periods,    \* the lag of period-on-period mode
    column,     \* the requested column: a name or a GrowthComponent
    result,     \* the frame growth_vars returns, or an error
    series,     \* a series of growth rates a component is applied to
    original,   \* the series before any component was applied
    flips,      \* how many times the component was applied
    options,    \* the options of the SlideSelect
    selectValue,    \* the value of its drop-down
    sliderValue,    \* the value of its slider
    visible,    \* visible[i + 1]: whether renderer i is visible
    recentIndex,    \* the drop-down's recent_index: {} while it has none
    previousIndex,  \* the drop-down's previous_index: {} while it has none
    stack,      \* the callbacks still to run, the next one first
    changed,    \* whether the drop-down's value has changed in the browser
    group,      \* the group of the GroupFilter linked to the drop-down
    emitted,    \* the group at the latest source.change.emit(), "" before
    comparison, \* a call of compare: its arguments, and what it gave
    checked,    \* a call of growth_vars by its names, and how it went
    baselineDate,   \* the date d of a baseline {date_var: d}, 0 with none
    run,        \* a run of a command line program: its arguments and files
    dashboard,  \* a run of the dashboard: a -c option, and its growth charts
    stacked,    \* a row of a data source, stacked up and down over fields
    bars,       \* a call of vbar_ or hbar_stack_updown, and its renderers
    revised,    \* a RevisedTS: the columns of its levels, indexes and growths
    chart,      \* the building of a snapshot chart: its step and its arguments
    heatmap,    \* a heatmap: a column of its source and the selected indices
    command,    \* a run of stacks, snapcomp or tscomp: its steps and its end
    unpacked,   \* a call of unpack_data_varnames, and what it returned
    constructed \* a call of RevisedTS(...), and how it went

growthVars == <<data, other, mode, useBy, periods, column, result>>
signVars == <<series, original, flips>>

widgetVars == <<options, selectValue, sliderValue, visible, recentIndex,
                previousIndex, stack, changed>>

filterVars == <<group, emitted>>

\* The variables of calls that stand on their own: of compare, of growth_vars
\* by its names or with a baseline date, of a program, of the stacks and of
\* RevisedTS.revisions.
toolVars ==
    <<comparison, checked, baselineDate, run, dashboard, stacked, bars,
      revised>>

\* The variables of the building of a chart, of a heatmap in the browser, of
\* a run of a command from its first step to its last, of
\* unpack_data_varnames and of the constructor of RevisedTS.
finalVars == <<chart, heatmap, command, unpacked, constructed>>

\* The variables of the parts of the program modelled further down.
laterVars == <<filterVars, toolVars, finalVars>>

vars == <<growthVars, signVars, widgetVars, laterVars>>

----------------------------------------------------------------------------
(* Bounds of the model *)

MaxRows == 3
MaxPeriods == 2
MaxRevRows == 2
MaxFlips == 2
MaxOptions == 3
MaxWeightedRows == 2
MaxDashboardRows == 2
MaxFields == 3
MaxStackers == 2

ByValues == {"A", "B"}
DateValues == {1, 2}

----------------------------------------------------------------------------
(* Floats *)

NaN == <<0, 0>>
PosInf == <<1, 0>>
NegInf == <<0 - 1, 0>>

Abs(n) == IF n < 0 THEN 0 - n ELSE n

Sign(n) == IF n < 0 THEN 0 - 1 ELSE IF n > 0 THEN 1 ELSE 0

RECURSIVE GCD(_, _)
GCD(a, b) == IF b = 0 THEN a ELSE GCD(b, a % b)

\* n/d in lowest terms with a positive denominator; n/0 is an infinity or NaN.
Rat(n, d) ==
    IF d = 0 THEN <<Sign(n), 0>>
    ELSE LET g == GCD(Abs(n), Abs(d))
             s == Sign(d)
         IN  <<(s * n) \div g, (s * d) \div g>>

Num(n) == <<n, 1>>

IsNaN(a) == a = NaN
IsInf(a) == a[2] = 0 /\ a[1] # 0
IsFinite(a) == a[2] # 0

\* a / b
FDiv(a, b) ==
    IF IsNaN(a) \/ IsNaN(b) THEN NaN
    ELSE IF IsInf(a) THEN (IF IsInf(b) THEN NaN
                           ELSE <<a[1] * (IF b[1] < 0 THEN 0 - 1 ELSE 1), 0>>)
    ELSE IF IsInf(b) THEN Num(0)
    ELSE Rat(a[1] * b[2], a[2] * b[1])

\* a - b
FSub(a, b) ==
    IF IsNaN(a) \/ IsNaN(b) THEN NaN
    ELSE IF IsInf(a) THEN (IF IsInf(b) /\ a[1] = b[1] THEN NaN ELSE a)
    ELSE IF IsInf(b) THEN <<0 - b[1], 0>>
    ELSE Rat(a[1] * b[2] - b[1] * a[2], a[2] * b[2])

\* a * b
FMul(a, b) ==
    IF IsNaN(a) \/ IsNaN(b) THEN NaN
    ELSE IF IsInf(a) \/ IsInf(b)
         THEN (IF a[1] = 0 \/ b[1] = 0 THEN NaN
               ELSE <<Sign(a[1]) * Sign(b[1]), 0>>)
    ELSE Rat(a[1] * b[1], a[2] * b[2])

\* The values a cell of the requested column may hold.
XValues == {NaN, Num(0), Num(1), Num(2)}

----------------------------------------------------------------------------
(* growthcomps.GrowthComponent *)

\* GrowthComponent(name, cweight, cname_format): cname_format is modelled by
\* the text it puts after {name}.
GrowthComponent(name, cweight, suffix) ==
    [isComponent |-> TRUE, name |-> name, cweight |-> cweight,
     cname |-> name \o suffix]

SignReversedWeight == Num(0 - 1)

SignReversedComponent(cname) ==
    GrowthComponent(cname, SignReversedWeight, " (sign reversed)")

\* A column given by its name alone.
PlainColumn(name) ==
    [isComponent |-> FALSE, name |-> name, cweight |-> Num(1), cname |-> name]

\* a + b
FAdd(a, b) == FSub(a, FMul(b, Num(0 - 1)))

\* growth_component with the weight added to the values.
growth_component_added(component, values) ==
    [i \in DOMAIN values |-> FAdd(values[i], component.cweight)]

\* component.growth_component(data, baseline) with a numeric cweight, on the
\* values of data[self.name]: each value times cweight.
growth_component(component, values) ==
    [i \in DOMAIN values |-> FMul(values[i], component.cweight)]

----------------------------------------------------------------------------
(* dutils.compare *)

\* A logarithm that is no rational number is modelled as <<n, d, c>>, which
\* stands for c * ln(n / d), with n / d positive and not 1 and c not 0.

\* np.log(a)
Log(a) ==
    CASE IsNaN(a)    -> NaN
      [] a = PosInf  -> PosInf
      [] a[1] < 0    -> NaN
      [] a = Num(0)  -> NegInf
      [] a = Num(1)  -> Num(0)
      [] OTHER       -> <<a[1], a[2], 1>>

\* l * c for a logarithm l and an integer c that is not 0
LogTimes(l, c) ==
    IF Len(l) = 3 THEN <<l[1], l[2], l[3] * c>> ELSE FMul(l, Num(c))

\* compare with every method taken for relpct.
compare_as_relpct(a, b, method) ==
    FMul(FSub(FDiv(a, b), Num(1)), Num(100))

compare(a, b, method) ==
    CASE method = "relpct" -> FMul(FSub(FDiv(a, b), Num(1)), Num(100))
      [] method = "logpct" -> LogTimes(Log(FDiv(a, b)), 100)
      [] method = "ratio"  -> FDiv(a, b)
      [] method = "diff"   -> FSub(a, b)
      [] OTHER             -> <<"ValueError">>

----------------------------------------------------------------------------
(* Frames *)

Row(i, r, b, d, x) == [idx |-> i, row |-> r, by |-> b, date |-> d, x |-> x]

SetX(r, x) == [r EXCEPT !.x = x]

\* The positions of frame f whose row is in group g.
GroupPositions(f, g) == {i \in DOMAIN f : f[i].by = g}

\* The position of the first row of f, among the positions in S, that holds a
\* value (is not NaN); 0 when there is none.
RECURSIVE FirstValidFrom(_, _, _)
FirstValidFrom(f, S, i) ==
    IF i > Len(f) THEN 0
    ELSE IF i \in S /\ ~IsNaN(f[i].x) THEN i
    ELSE FirstValidFrom(f, S, i + 1)

\* data.groupby(by)[column].first(): for group g, the first value of the
\* column that is not missing, rows taken in the order of the frame.
GroupbyFirst(f, g) ==
    LET p == FirstValidFrom(f, GroupPositions(f, g), 1)
    IN  IF p = 0 THEN NaN ELSE f[p].x

\* data.sort_values(date_var, kind="stable", ignore_index=True): row i goes
\* to the place SortPosition(f, i).
SortPosition(f, i) ==
    1 + Cardinality({j \in DOMAIN f :
                        \/ f[j].date < f[i].date
                        \/ f[j].date = f[i].date /\ j < i})

\* SortValues with the sort forgotten.
SortValuesNotSorted(f) == [k \in DOMAIN f |-> [f[k] EXCEPT !.idx = k - 1]]

SortValues(f) ==
    [k \in DOMAIN f |->
        LET i == CHOOSE i \in DOMAIN f : SortPosition(f, i) = k
        IN  [f[i] EXCEPT !.idx = k - 1]]

\* data.shift(periods): row i takes the values of row i - periods.
Shift(f, n) ==
    [i \in DOMAIN f |->
        IF i - n \in DOMAIN f THEN SetX(f[i], f[i - n].x) ELSE SetX(f[i], NaN)]

\* GroupShift with the grouping forgotten.
GroupShiftUngrouped(f, n) == Shift(f, n)

\* The rank of row i in its group: the number of rows of the group up to it.
GroupRank(f, i) == Cardinality({j \in GroupPositions(f, f[i].by) : j <= i})

\* data.groupby(by, sort=False).shift(periods): row i takes the values of the
\* row n places before it among the rows of its group.
GroupShift(f, n) ==
    [i \in DOMAIN f |->
        LET prev == {j \in GroupPositions(f, f[i].by) :
                        GroupRank(f, j) = GroupRank(f, i) - n}
        IN  IF prev = {} THEN SetX(f[i], NaN)
            ELSE SetX(f[i], f[CHOOSE j \in prev : TRUE].x)]

\* JoinOnBy with the join key forgotten: every row gets the first value of
\* the whole frame.
JoinOnByAnyGroup(f) ==
    LET p == FirstValidFrom(f, DOMAIN f, 1)
    IN  [i \in DOMAIN f |-> SetX(f[i], IF p = 0 THEN NaN ELSE f[p].x)]

\* data.drop(columns).join(baseline, on=by)
JoinOnBy(f) == [i \in DOMAIN f |-> SetX(f[i], GroupbyFirst(f, f[i].by))]

\* Key with the frames left on their own index, so that rows are matched by
\* their place in the frame.
KeyByPlace(kind, r) == <<r.idx>>

\* The label of row r in the index the two frames are aligned on: the row's
\* own index label, or after data.set_index(id_vars) its id_vars values.
Key(kind, r) ==
    CASE kind = "bydate" -> <<r.by, r.date>>
      [] kind = "date"   -> <<r.date>>
      [] OTHER           -> <<r.idx>>

\* The value the row of frame o labelled k holds; NaN when o has no such row
\* (binary operators align the two frames on their index, and a label only
\* one of them has gives a missing value).
Lookup(o, kind, k) ==
    LET hits == {j \in DOMAIN o : Key(kind, o[j]) = k}
    IN  IF hits = {} THEN NaN ELSE o[CHOOSE j \in hits : TRUE].x

\* _df_compare(data, other, columns, method): data with the requested column
\* replaced by its comparison with the row of other under the same label.
DfCompare(d, o, kind, method) ==
    [i \in DOMAIN d |->
        SetX(d[i], compare(d[i].x, Lookup(o, kind, Key(kind, d[i])), method))]

Values(f) == [i \in DOMAIN f |-> f[i].x]

\* float(s) for the strings given as weights below; ValueError for a string
\* that is not a number.
Float(s) ==
    CASE s = "2"   -> Num(2)
      [] s = "-1"  -> Num(0 - 1)
      [] s = "0.5" -> Rat(1, 2)
      [] OTHER     -> <<"ValueError">>

\* frame.columns, for a frame whose index holds the id_vars or 0, 1, ...
FrameColumns(o) == IF Len(o) = 0 THEN {} ELSE DOMAIN o[1] \cap {"x", "w"}

\* The value column `name` of frame o holds in the row labelled k.
ColumnLookup(o, kind, k, name) ==
    LET hits == {j \in DOMAIN o : Key(kind, o[j]) = k}
    IN  IF hits = {} THEN NaN ELSE o[CHOOSE j \in hits : TRUE][name]

\* A cweight given as a string s is modelled as <<s>>, a number as <<n, d>>.
IsStringWeight(component) == Len(component.cweight) = 1

\* The weight with a string looked up among the columns of data.
StringWeightOfData(s, o, kind, k) ==
    IF s \in FrameColumns(data) THEN ColumnLookup(data, kind, k, s)
    ELSE Float(s)

\* growth_component, a cweight given as a string s, for the row labelled k:
\* baseline[s] when s is a column of baseline, float(s) otherwise.
StringWeight(s, o, kind, k) ==
    IF s \in FrameColumns(o) THEN ColumnLookup(o, kind, k, s) ELSE Float(s)

\* _df_weighted_diff(data, other, columns, method)
DfWeightedDiff(d, o, kind, col, method) ==
    LET compared == DfCompare(d, o, kind, method)
        weight(i) == StringWeight(col.cweight[1], o, kind, Key(kind, d[i]))
        scaled == IF ~col.isComponent THEN compared
                  ELSE IF IsStringWeight(col)
                  THEN [i \in DOMAIN d |->
                          SetX(compared[i], FMul(compared[i].x, weight(i)))]
                  ELSE LET c == growth_component(col, Values(compared))
                       IN  [i \in DOMAIN d |-> SetX(compared[i], c[i])]
    IN  IF /\ col.isComponent /\ IsStringWeight(col)
           /\ col.cweight[1] \notin FrameColumns(o)
           /\ Len(Float(col.cweight[1])) = 1
        THEN [status |-> "ValueError", col |-> col.cname, rows |-> <<>>]
        ELSE [status |-> "ok", col |-> col.cname, rows |-> scaled]

\* result.reset_index(inplace=True): the id_vars become columns again and the
\* index becomes 0, 1, ...
ResetIndex(r) ==
    [r EXCEPT !.rows = [i \in DOMAIN r.rows |-> [r.rows[i] EXCEPT !.idx = i - 1]]]

----------------------------------------------------------------------------
(* growthcomps.growth_vars, called with date_var and one requested column *)

\* baseline=None: period-on-period growth.
PeriodGrowth(d, by, n, col, method) ==
    LET sorted == SortValues(d)
        df_baseline == IF by THEN GroupShift(sorted, n) ELSE Shift(sorted, n)
    IN  DfWeightedDiff(sorted, df_baseline, "idx", col, method)

\* baseline a DataFrame: revisions.
RevisionGrowth(d, o, by, col, method) ==
    LET kind == IF by THEN "bydate" ELSE "date"
    IN  ResetIndex(DfWeightedDiff(d, o, kind, col, method))

\* baseline="first": cumulative growth.
CumulativeGrowth(d, by, col, method) ==
    IF by
    THEN DfWeightedDiff(d, JoinOnBy(d), "idx", col, method)
    ELSE LET p == FirstValidFrom(d, DOMAIN d, 1)
         IN  IF p = 0
             THEN [status |-> "KeyError", col |-> col.cname, rows |-> <<>>]
             ELSE DfWeightedDiff(d, [i \in DOMAIN d |-> SetX(d[i], d[p].x)],
                                 "idx", col, method)

----------------------------------------------------------------------------
(* The calls of growth_vars on one frame, for a column given by its name *)

\* The frame of the rows t, as read from a file: the index is 0, 1, ...
Frame(t) == [i \in DOMAIN t |-> Row(i - 1, i, t[i][1], t[i][2], t[i][3])]

\* The rows of the frames of n rows with values among X.
Rows(n, X) == [1..n -> ByValues \X DateValues \X X]

Columns == {PlainColumn("x"), SignReversedComponent("x")}

NoResult == [status |-> "none", col |-> "", rows |-> <<>>]

NoSeries ==
    /\ series = <<>>
    /\ original = <<>>
    /\ flips = 0

NoWidget ==
    /\ options = <<>>
    /\ selectValue = ""
    /\ sliderValue = 0
    /\ visible = <<>>
    /\ recentIndex = {}
    /\ previousIndex = {}
    /\ stack = <<>>
    /\ changed = FALSE

NoFilter ==
    /\ group = ""
    /\ emitted = ""

\* No call of compare, of growth_vars by its names or with a baseline date,
\* no run of a program, no stack and no RevisedTS.
NoTools ==
    /\ comparison = <<>>
    /\ checked = <<>>
    /\ baselineDate = 0
    /\ run = <<>>
    /\ dashboard = <<>>
    /\ stacked = <<>>
    /\ bars = <<>>
    /\ revised = <<>>

\* The parts modelled further down, not in use.
\* No chart being built, no heatmap, no run of a command, no call of
\* unpack_data_varnames and none of RevisedTS(...).
NoFinal ==
    /\ chart = <<>>
    /\ heatmap = <<>>
    /\ command = <<>>
    /\ unpacked = <<>>
    /\ constructed = <<>>

NoLater ==
    /\ NoFilter
    /\ NoTools
    /\ NoFinal

NoCall ==
    /\ mode = "none"
    /\ useBy = FALSE
    /\ periods = 0
    /\ column = PlainColumn("x")
    /\ result = NoResult

Init ==
    /\ \E n \in 1..MaxRows : \E t \in Rows(n, XValues) : data = Frame(t)
    /\ other = <<>>
    /\ NoCall
    /\ NoSeries
    /\ NoWidget
    /\ NoLater

CallCumulative ==
    /\ mode = "none"
    /\ \E by \in BOOLEAN :
        /\ mode' = "first"
        /\ useBy' = by
        /\ result' = CumulativeGrowth(data, by, column, "relpct")
    /\ UNCHANGED <<laterVars, data, other, periods, column, signVars,
                   widgetVars>>

CallPeriod ==
    /\ mode = "none"
    /\ \E by \in BOOLEAN, n \in 1..MaxPeriods :
        /\ mode' = "pop"
        /\ useBy' = by
        /\ periods' = n
        /\ result' = PeriodGrowth(data, by, n, column, "relpct")
    /\ UNCHANGED <<laterVars, data, other, column, signVars, widgetVars>>

Next == CallCumulative \/ CallPeriod

Spec == Init /\ [][Next]_vars

----------------------------------------------------------------------------
(* The calls of growth_vars with a baseline frame *)

\* The values of the two vintages.
RevisionValues == {NaN, Num(1), Num(2)}

\* Whether no two rows of f have the same by and date (with by), or the same
\* date (without).
UniqueKeys(f, by) ==
    \A i, j \in DOMAIN f :
        (f[i].date = f[j].date /\ (by => f[i].by = f[j].by)) => i = j

\* The two vintages are time series: one row for a date of a group.
InitRevision ==
    /\ \E n \in 1..MaxRevRows : \E t \in Rows(n, RevisionValues) :
          data = Frame(t) /\ UniqueKeys(data, TRUE)
    /\ \E n \in 1..MaxRevRows : \E t \in Rows(n, RevisionValues) :
          other = Frame(t) /\ UniqueKeys(other, TRUE)
    /\ NoCall
    /\ NoSeries
    /\ NoWidget
    /\ NoLater

CallRevision ==
    /\ mode = "none"
    /\ \E by \in BOOLEAN, col \in Columns :
        /\ UniqueKeys(data, by) /\ UniqueKeys(other, by)
        /\ mode' = "rev"
        /\ useBy' = by
        /\ column' = col
        /\ result' = RevisionGrowth(data, other, by, col, "relpct")
    /\ UNCHANGED <<laterVars, data, other, periods, signVars, widgetVars>>

NextRevision == CallRevision

SpecRevision == InitRevision /\ [][NextRevision]_vars

----------------------------------------------------------------------------
(* A sign-reversed component applied to a series, again and again *)

SeriesValues ==
    {NaN, PosInf, NegInf, Num(0), Num(1), Num(0 - 2), Rat(1, 2)}

InitSign ==
    /\ data = <<>>
    /\ other = <<>>
    /\ NoCall
    /\ \E n \in 1..MaxRows : series \in [1..n -> SeriesValues]
    /\ original = series
    /\ flips = 0
    /\ NoWidget
    /\ NoLater

\* SignReversedComponent(name).growth_component(frame): the frame holds the
\* series in the column the component names.
ReverseSign ==
    /\ flips < MaxFlips
    /\ series' = growth_component(SignReversedComponent("x"), series)
    /\ flips' = flips + 1
    /\ UNCHANGED <<laterVars, growthVars, original, widgetVars>>

NextSign == ReverseSign

SpecSign == InitSign /\ [][NextSign]_vars

----------------------------------------------------------------------------
(* A SlideSelect linked to the renderers of a chart, live in a browser.     *)
(* Indexes are those of the browser: the first option is option 0.         *)

OptionNames == {"a", "b", "c"}

\* options.indexOf(value), and list.index(value): the first place of value,
\* -1 when it has none.
RECURSIVE IndexFrom(_, _, _)
IndexFrom(opts, value, i) ==
    IF i > Len(opts) THEN 0 - 1
    ELSE IF opts[i] = value THEN i - 1
    ELSE IndexFrom(opts, value, i + 1)

IndexOf(opts, value) == IndexFrom(opts, value, 1)

\* The drop-down's callback with the index of the first option for every
\* value.
SelectToSliderFirst(opts, value) == 0

\* The drop-down's callback: other.value = this.options.indexOf(this.value)
SelectToSlider(opts, value) == IndexOf(opts, value)

\* The slider's callback: other.value = other.options[this.value]
SliderToSelect(opts, k) == opts[k + 1]

\* The callbacks of the drop-down's value, in the order they were attached:
\* SlideSelect's own, then link_widget_to_lines'.
SelectCallbacks == <<"select_to_slider", "lines">>

SliderCallbacks == <<"slider_to_select">>

\* The callback of link_widget_to_lines with the renderer to hide left as
\* it was.
PreviousIndexKept(optionIndex, recent, previous) ==
    IF previous = {} THEN {0} ELSE previous

\* The renderer the callback of link_widget_to_lines hides: previous_index
\* after its first statement.
PreviousIndex(optionIndex, recent, previous) ==
    IF recent = {} THEN {0}
    ELSE IF recent # {optionIndex} THEN recent
    ELSE previous

\* grouped_multi_lines: one renderer for each group, the first one visible.
\* link_widget_to_lines: recent_index may be preset to the visible renderer.
InitWidget ==
    /\ data = <<>>
    /\ other = <<>>
    /\ NoCall
    /\ NoSeries
    /\ \E n \in 1..MaxOptions : options \in [1..n -> OptionNames]
    /\ \E k \in DOMAIN options :
          \* SlideSelect.__new__, and the setter of SlideSelect.value
          /\ selectValue = options[k]
          /\ sliderValue = IndexOf(options, options[k])
    /\ \/ /\ recentIndex = {}
          /\ visible = [i \in DOMAIN options |-> i = 1]
       \/ \E k \in DOMAIN options :
          /\ recentIndex = {k - 1}
          /\ visible = [i \in DOMAIN options |-> i = k]
    /\ previousIndex = {}
    /\ stack = <<>>
    /\ changed = FALSE
    /\ NoLater

\* The user picks another option of the drop-down.
UserSelects ==
    /\ stack = <<>>
    /\ \E k \in DOMAIN options :
        /\ options[k] # selectValue
        /\ selectValue' = options[k]
    /\ stack' = SelectCallbacks
    /\ changed' = TRUE
    /\ UNCHANGED <<laterVars, growthVars, signVars, options, sliderValue,
                   visible,
                   recentIndex, previousIndex>>

\* The user moves the slider.
UserSlides ==
    /\ stack = <<>>
    /\ \E k \in 0..(Len(options) - 1) :
        /\ k # sliderValue
        /\ sliderValue' = k
    /\ stack' = SliderCallbacks
    /\ UNCHANGED <<laterVars, growthVars, signVars, options, selectValue,
                   visible,
                   recentIndex, previousIndex, changed>>

\* A property changes only when it is given another value, and its callbacks
\* run before anything else does.
RunSelectToSlider ==
    /\ stack # <<>> /\ Head(stack) = "select_to_slider"
    /\ sliderValue' = SelectToSlider(options, selectValue)
    /\ stack' = IF sliderValue' # sliderValue
                THEN SliderCallbacks \o Tail(stack)
                ELSE Tail(stack)
    /\ UNCHANGED <<laterVars, growthVars, signVars, options, selectValue,
                   visible,
                   recentIndex, previousIndex, changed>>

RunSliderToSelect ==
    /\ stack # <<>> /\ Head(stack) = "slider_to_select"
    /\ selectValue' = SliderToSelect(options, sliderValue)
    /\ stack' = IF selectValue' # selectValue
                THEN SelectCallbacks \o Tail(stack)
                ELSE Tail(stack)
    /\ changed' = (changed \/ selectValue' # selectValue)
    /\ UNCHANGED <<laterVars, growthVars, signVars, options, sliderValue,
                   visible,
                   recentIndex, previousIndex>>

\* The callback of link_widget_to_lines.  With no previous_index to hide,
\* glyphs[undefined].visible = false throws: nothing is changed, and the
\* callbacks still to run are given up.
RunLinesCallback ==
    /\ stack # <<>> /\ Head(stack) = "lines"
    /\ LET option_index == IndexOf(options, selectValue)
           previous == PreviousIndex(option_index, recentIndex, previousIndex)
       IN  IF previous = {}
           THEN /\ stack' = <<>>
                /\ UNCHANGED <<visible, recentIndex, previousIndex>>
           ELSE /\ previousIndex' = previous
                /\ visible' = [i \in DOMAIN visible |->
                                 IF i = option_index + 1 THEN TRUE
                                 ELSE IF {i - 1} = previous THEN FALSE
                                 ELSE visible[i]]
                /\ recentIndex' = {option_index}
                /\ stack' = Tail(stack)
    /\ UNCHANGED <<laterVars, growthVars, signVars, options, selectValue,
                   sliderValue,
                   changed>>

NextWidget ==
    \/ UserSelects
    \/ UserSlides
    \/ RunSelectToSlider
    \/ RunSliderToSelect
    \/ RunLinesCallback

SpecWidget == InitWidget /\ [][NextWidget]_vars

----------------------------------------------------------------------------
(* Properties of the calls of growth_vars *)

Done == mode # "none" /\ result.status = "ok"

\* The positions of data in the group of row i: the rows with the same by
\* value, or every row when no by column is given.
GroupOf(i) == {j \in DOMAIN data : useBy => data[j].by = data[i].by}

\* How many rows of its group come before row i of data in date order, rows
\* of one date taken in the order of the frame.
EarlierInGroup(i) ==
    Cardinality({j \in GroupOf(i) :
                    \/ data[j].date < data[i].date
                    \/ data[j].date = data[i].date /\ j < i})

\* What the requested column of the result holds for a growth of g.
Weighted(g) == IF column.isComponent THEN FMul(g, column.cweight) ELSE g

RelPct(a, b) == FMul(FSub(FDiv(a, b), Num(1)), Num(100))

HoldsValue(i) == ~IsNaN(data[i].x)

AtBaselineDate(i) ==
    {j \in GroupOf(i) : \A k \in GroupOf(i) : data[j].date <= data[k].date}

\* Every row of the group of row i holds a value that is not zero.
GroupHoldsNonzero(i) ==
    \A j \in GroupOf(i) : IsFinite(data[j].x) /\ data[j].x # Num(0)

\* C2: with baseline="first", the growth of the requested column is 0 in the
\* row at the baseline date (the smallest date) of every group, or of the
\* whole frame without a by column.  Stated for the groups that have one row
\* at their smallest date and hold nonzero values only, so that neither two
\* rows of one date nor a division by zero is what decides it.
C2_ZeroAtBaselineDate ==
    (Done /\ mode = "first") =>
        \A i \in DOMAIN data :
            (AtBaselineDate(i) = {i} /\ GroupHoldsNonzero(i)) =>
                \E k \in DOMAIN result.rows :
                    result.rows[k].row = i /\ result.rows[k].x = Num(0)

\* C3, as claimed: without a baseline, a column that holds one nonzero value
\* in every row of a group has growth zero in every row of the group.
C3_ConstantGroupAllZero ==
    (Done /\ mode = "pop") =>
        \A k \in DOMAIN result.rows :
            LET i == result.rows[k].row
            IN  (GroupHoldsNonzero(i)
                    /\ \A j \in GroupOf(i) : data[j].x = data[i].x)
                => result.rows[k].x = Num(0)

\* C3, amended: such a column has growth zero in every row of the group but
\* its first `periods` rows in date order, where the growth is missing.
C3_ConstantGroupZeroAfterLag ==
    (Done /\ mode = "pop") =>
        \A k \in DOMAIN result.rows :
            LET i == result.rows[k].row
            IN  (GroupHoldsNonzero(i)
                    /\ \A j \in GroupOf(i) : data[j].x = data[i].x)
                => result.rows[k].x =
                      IF EarlierInGroup(i) < periods THEN NaN ELSE Num(0)

\* C3's case: a constant group of two rows beside a row of another group,
\* given out of date order: the later one has growth zero, and the earlier
\* one, which comes second in the frame, has none.
C3_Witness ==
    /\ Done /\ mode = "pop" /\ useBy /\ periods = 1
    /\ \E i \in DOMAIN data :
        /\ Cardinality(GroupOf(i)) = 2
        /\ Cardinality(GroupOf(i)) < Len(data)
        /\ GroupHoldsNonzero(i)
        /\ \A j \in GroupOf(i) : data[j].x = data[i].x
        /\ \E j \in GroupOf(i) :
              /\ j < i /\ data[j].date > data[i].date
              /\ \E k \in DOMAIN result.rows :
                    result.rows[k].row = j /\ result.rows[k].x = Num(0)
        /\ \E k \in DOMAIN result.rows :
              result.rows[k].row = i /\ IsNaN(result.rows[k].x)

\* C5: with baseline="first" and a by column, the baseline value of each
\* group is taken from the row of the group with the smallest date, whatever
\* the order of the rows: every row's growth is its growth from that row.
\* Stated for the groups that have one row at their smallest date and hold
\* nonzero values only, so that neither two rows of one date nor a missing
\* value is what decides it.
C5_BaselineIsSmallestDate ==
    (Done /\ mode = "first" /\ useBy) =>
        \A i \in DOMAIN data :
            (GroupHoldsNonzero(i) /\ Cardinality(AtBaselineDate(i)) = 1) =>
                \E b \in AtBaselineDate(i) :
                    result.rows[i].x = RelPct(data[i].x, data[b].x)

\* C6: in period-on-period mode with a by column, the baseline of a row is
\* the row of its group `periods` places before it in date order (rows of
\* one date in the order of the frame), never a row of another group, and
\* the first `periods` rows of a group have none: their growth is missing.
C6_BaselineIsLagInGroup ==
    (Done /\ mode = "pop" /\ useBy) =>
        /\ Len(result.rows) = Len(data)
        /\ \A i \in DOMAIN data : \E k \in DOMAIN result.rows :
              result.rows[k].row = i
        /\ \A k \in DOMAIN result.rows :
            LET i == result.rows[k].row
            IN  IF EarlierInGroup(i) < periods
                THEN IsNaN(result.rows[k].x)
                ELSE \E b \in GroupOf(i) :
                       /\ data[b].by = data[i].by
                       /\ EarlierInGroup(b) = EarlierInGroup(i) - periods
                       /\ result.rows[k].x = RelPct(data[i].x, data[b].x)

\* C6's case: two groups interleaved and out of date order; a row grows by
\* 100 percent from the row of its group one date before, which comes after
\* it in the frame, with a row of the other group between them.
C6_Witness ==
    /\ Done /\ mode = "pop" /\ useBy /\ periods = 1
    /\ \E i, j, b \in DOMAIN data :
        /\ i < j /\ j < b
        /\ data[i].by = data[b].by /\ data[j].by # data[i].by
        /\ data[b].date < data[i].date
        /\ data[b].x = Num(1) /\ data[i].x = Num(2) /\ data[j].x = Num(0)
        /\ \E k \in DOMAIN result.rows :
              result.rows[k].row = i /\ result.rows[k].x = Num(100)

\* C8: growth_vars returns a frame with the index of data: the same labels
\* on the same rows in the same order.
C8_SameIndexAsData ==
    Done =>
        /\ Len(result.rows) = Len(data)
        /\ \A i \in DOMAIN data :
              /\ result.rows[i].idx = data[i].idx
              /\ result.rows[i].row = data[i].row

----------------------------------------------------------------------------
(* Properties of the sign reversal *)

\* C4: a sign-reversed component applied to a series, and applied again to
\* what it gave, gives the series back value for value.
C4_ReverseTwiceIsOriginal ==
    (flips % 2 = 0) =>
        /\ Len(series) = Len(original)
        /\ \A i \in DOMAIN original : series[i] = original[i]

\* C4's case: after two reversals, of a series with a value that one
\* reversal changes.
C4_Witness ==
    /\ flips = 2
    /\ Len(original) >= 2
    /\ \E i \in DOMAIN original :
        /\ original[i] = Rat(1, 2)
        /\ FMul(series[i], SignReversedWeight) = Rat(0 - 1, 2)
    /\ \E i \in DOMAIN original : original[i] = NegInf

----------------------------------------------------------------------------
(* Properties of the revisions *)

\* The rows of the baseline frame with the by and date_var values of row i
\* of data.
SameKeyRows(i) ==
    {j \in DOMAIN other :
        other[j].date = data[i].date /\ (useBy => other[j].by = data[i].by)}

\* C7: with a baseline frame, each row of data is compared with the row of
\* the baseline that has its by and date_var values, wherever the two rows
\* are in their frames, and a row of data with no such row has a missing
\* result.
C7_RevisionMatchesOnByAndDate ==
    (Done /\ mode = "rev") =>
        /\ Len(result.rows) = Len(data)
        /\ \A i \in DOMAIN data :
            /\ result.rows[i].row = i
            /\ IF SameKeyRows(i) = {}
               THEN IsNaN(result.rows[i].x)
               ELSE \E j \in SameKeyRows(i) :
                      result.rows[i].x =
                          Weighted(RelPct(data[i].x, other[j].x))

\* C7's case: a row of data compared with a baseline row at another place
\* of its frame, where the row at its own place would give another result,
\* and a row of data that holds a value and has no baseline row.
C7_Witness ==
    /\ Done /\ mode = "rev" /\ useBy /\ ~column.isComponent
    /\ Len(data) = 2 /\ Len(other) = 2
    /\ SameKeyRows(1) = {2}
    /\ data[1].x = Num(2) /\ other[2].x = Num(1) /\ other[1].x = Num(2)
    /\ result.rows[1].x = Num(100)
    /\ SameKeyRows(2) = {}
    /\ data[2].x = Num(1)
    /\ IsNaN(result.rows[2].x)

----------------------------------------------------------------------------
(* Properties of the widgets *)

VisibleRenderers == {i \in 0..(Len(visible) - 1) : visible[i + 1]}

\* C9: with renderer 0 the only one visible at first, or recent_index preset
\* to the only visible one, after every change of the selector's value (once
\* its callbacks have run) one renderer is visible: the one at the index of
\* the value in the options.
C9_OneVisibleAtSelectedIndex ==
    (changed /\ stack = <<>>) =>
        VisibleRenderers = {IndexOf(options, selectValue)}

\* C9's case: the visible renderer has moved away from renderer 0 and on to
\* a third one.
C9_Witness ==
    /\ changed /\ stack = <<>>
    /\ recentIndex = {2}
    /\ previousIndex = {1}
    /\ VisibleRenderers = {2}

\* C10: once the callbacks have run, the drop-down's value is the option at
\* the slider's position.
C10_SelectIsOptionAtSlider ==
    stack = <<>> => selectValue = options[sliderValue + 1]

\* C10's case: the slider was moved off the first option, the drop-down
\* followed, and the callbacks have run.
C10_Witness ==
    /\ stack = <<>>
    /\ changed
    /\ sliderValue = 2
    /\ selectValue = options[3]
    /\ selectValue # options[1]

----------------------------------------------------------------------------
(* A SlideSelect linked to a GroupFilter by link_widgets_to_groupfilters,   *)
(* live in a browser.                                                      *)

\* The group with the callback of js_link never assigning it.
LinkedGroupKept(value, old) == old

\* widget.js_link("value", other=filt, other_attr="group"): the callback
\* assigns the drop-down's value to the filter's group.
LinkedGroup(value, old) == value

\* The callbacks of the drop-down's value, in the order they were attached:
\* SlideSelect's own, then the one of js_link.
LinkedSelectCallbacks == <<"select_to_slider", "link_group">>

\* filt.js_on_change("group", CustomJS(code="source.change.emit()"))
GroupCallbacks == <<"emit">>

\* A widget with any of its options as its value, and a filter whose group
\* is any of them: link_widgets_to_groupfilters brings neither in line with
\* the other.
InitFilter ==
    /\ data = <<>>
    /\ other = <<>>
    /\ NoCall
    /\ NoSeries
    /\ \E n \in 1..MaxOptions : options \in [1..n -> OptionNames]
    /\ \E k \in DOMAIN options :
          /\ selectValue = options[k]
          /\ sliderValue = IndexOf(options, options[k])
    /\ visible = <<>>
    /\ recentIndex = {}
    /\ previousIndex = {}
    /\ stack = <<>>
    /\ changed = FALSE
    /\ \E k \in DOMAIN options : group = options[k]
    /\ emitted = ""
    /\ NoTools
    /\ NoFinal

\* The user picks another option of the drop-down.
UserSelectsLinked ==
    /\ stack = <<>>
    /\ \E k \in DOMAIN options :
        /\ options[k] # selectValue
        /\ selectValue' = options[k]
    /\ stack' = LinkedSelectCallbacks
    /\ changed' = TRUE
    /\ UNCHANGED <<finalVars,
                   growthVars, signVars, options, sliderValue, visible,
                   recentIndex, previousIndex, filterVars, toolVars>>

RunSliderToSelectLinked ==
    /\ stack # <<>> /\ Head(stack) = "slider_to_select"
    /\ selectValue' = SliderToSelect(options, sliderValue)
    /\ stack' = IF selectValue' # selectValue
                THEN LinkedSelectCallbacks \o Tail(stack)
                ELSE Tail(stack)
    /\ changed' = (changed \/ selectValue' # selectValue)
    /\ UNCHANGED <<finalVars,
                   growthVars, signVars, options, sliderValue, visible,
                   recentIndex, previousIndex, filterVars, toolVars>>

\* The callback of js_link.  The group changes, and its callbacks run, only
\* when it is given another value.
RunLinkGroup ==
    /\ stack # <<>> /\ Head(stack) = "link_group"
    /\ group' = LinkedGroup(selectValue, group)
    /\ stack' = IF group' # group
                THEN GroupCallbacks \o Tail(stack)
                ELSE Tail(stack)
    /\ UNCHANGED <<finalVars,
                   growthVars, signVars, options, selectValue, sliderValue,
                   visible, recentIndex, previousIndex, changed, emitted,
                   toolVars>>

\* The callback of the filter's group: source.change.emit()
RunEmit ==
    /\ stack # <<>> /\ Head(stack) = "emit"
    /\ emitted' = group
    /\ stack' = Tail(stack)
    /\ UNCHANGED <<finalVars,
                   growthVars, signVars, options, selectValue, sliderValue,
                   visible, recentIndex, previousIndex, changed, group,
                   toolVars>>

RunCallback ==
    \/ RunSelectToSlider
    \/ RunSliderToSelectLinked
    \/ RunLinkGroup
    \/ RunEmit

NextFilter ==
    \/ UserSelectsLinked
    \/ UserSlides
    \/ RunCallback

\* The browser runs the callbacks of a change to their end.
SpecFilter == InitFilter /\ [][NextFilter]_vars /\ WF_vars(RunCallback)

\* The drop-down's value has changed and the callback of js_link has not yet
\* run for the change.
ValueChangePending == \E i \in DOMAIN stack : stack[i] = "link_group"

\* C11: after link_widgets_to_groupfilters, whenever the value of the
\* linked widget changes, the filter's group is updated to the new value
\* (once the callbacks of the change have run the group is the value), and
\* every update of the group is followed at once by the source emitting a
\* change signal for it.
C11_ValueChangeUpdatesGroupThenEmits ==
    /\ \A v \in OptionNames :
          (selectValue = v /\ ValueChangePending)
              ~> (stack = <<>> /\ group = v)
    /\ [][group' # group => (stack' # <<>> /\ Head(stack') = "emit")]_vars
    /\ (stack # <<>> /\ Head(stack) = "emit") ~> (emitted = group)

\* C11's case: the slider was moved to the last of three options, the
\* drop-down followed it, the group that was the first option is now the
\* last, and the source has emitted for it.
C11_Witness ==
    /\ Len(options) = 3 /\ stack = <<>> /\ changed
    /\ sliderValue = 2 /\ selectValue = options[3]
    /\ selectValue # options[1] /\ selectValue # options[2]
    /\ group = selectValue /\ emitted = group

----------------------------------------------------------------------------
(* growth_vars for a GrowthComponent, on frames with a column of weights: a *)
(* row is [idx, row, by, date, x, w].                                      *)

WeightValues == {Num(1), Num(2)}

\* The frame of the rows t, one group, with the column w of weights.
WeightedFrame(t) ==
    [i \in DOMAIN t |->
        [idx |-> i - 1, row |-> i, by |-> "A", date |-> t[i][1],
         x |-> t[i][2], w |-> t[i][3]]]

WeightedRows(n) == [1..n -> DateValues \X RevisionValues \X WeightValues]

\* Components with a number, the name of a column, and other strings as
\* their cweight.
ComponentColumns ==
    {GrowthComponent("x", Num(2), ""),
     GrowthComponent("x", <<"w">>, " weighted"),
     GrowthComponent("x", <<"2">>, " doubled"),
     GrowthComponent("x", <<"-1">>, " (sign reversed)"),
     GrowthComponent("x", <<"0.5">>, ""),
     GrowthComponent("x", <<"half">>, "")}

InitComponent ==
    /\ \E n \in 1..MaxWeightedRows : \E t \in WeightedRows(n) :
          data = WeightedFrame(t) /\ UniqueKeys(data, FALSE)
    /\ \E n \in 1..MaxWeightedRows : \E t \in WeightedRows(n) :
          other = WeightedFrame(t) /\ UniqueKeys(other, FALSE)
    /\ NoCall
    /\ NoSeries
    /\ NoWidget
    /\ NoLater

\* growth_vars(data, columns=[component], date_var="date", baseline=other)
CallComponentRevision ==
    /\ mode = "none"
    /\ \E col \in ComponentColumns :
        /\ column' = col
        /\ result' = RevisionGrowth(data, other, FALSE, col, "relpct")
    /\ mode' = "rev"
    /\ useBy' = FALSE
    /\ UNCHANGED <<laterVars, data, other, periods, signVars, widgetVars>>

\* growth_vars(data, columns=[component], date_var="date", by="by",
\*             baseline="first")
CallComponentCumulative ==
    /\ mode = "none"
    /\ \E col \in ComponentColumns :
        /\ column' = col
        /\ result' = CumulativeGrowth(data, TRUE, col, "relpct")
    /\ mode' = "first"
    /\ useBy' = TRUE
    /\ UNCHANGED <<laterVars, data, other, periods, signVars, widgetVars>>

NextComponent ==
    \/ CallComponentRevision
    \/ CallComponentCumulative

SpecComponent == InitComponent /\ [][NextComponent]_vars

\* The rows of frame f with the date of row i of data.
SameDateRows(f, i) == {j \in DOMAIN f : f[j].date = data[i].date}

\* The baseline of row i of data: the value of x, and the weight w, in the
\* row of the baseline frame that is lined up with it.
BaselineOf(i) ==
    IF mode = "rev"
    THEN IF SameDateRows(other, i) = {} THEN [x |-> NaN, w |-> NaN]
         ELSE LET j == CHOOSE j \in SameDateRows(other, i) : TRUE
              IN  [x |-> other[j].x, w |-> other[j].w]
    ELSE LET valid == {j \in DOMAIN data : HoldsValue(j)}
         IN  IF valid = {} THEN [x |-> NaN, w |-> data[i].w]
             ELSE LET b == CHOOSE b \in valid : \A j \in valid : b <= j
                  IN  [x |-> data[b].x, w |-> data[i].w]

\* The weight the claim gives a component for row i of data.
ClaimedWeight(i) ==
    CASE column.cweight = <<"w">>   -> BaselineOf(i).w
      [] column.cweight = <<"2">>   -> Num(2)
      [] column.cweight = <<"-1">>  -> Num(0 - 1)
      [] column.cweight = <<"0.5">> -> Rat(1, 2)
      [] OTHER                      -> column.cweight

\* C12: for a GrowthComponent column, the result of growth_vars is the
\* growth of the named column times the component's weight (a number as it
\* is; a string naming a column of the baseline frame, the value of that
\* column in the baseline row of each row; any other string converted to a
\* number, which fails with ValueError when it is not one), and the column
\* of the result is called by the component's cname.
C12_ComponentIsGrowthTimesWeight ==
    (mode # "none" /\ column.isComponent) =>
        IF column.cweight = <<"half">>
        THEN result.status = "ValueError"
        ELSE /\ result.status = "ok"
             /\ result.col = column.cname
             /\ Len(result.rows) = Len(data)
             /\ \A i \in DOMAIN data :
                   /\ result.rows[i].row = i
                   /\ result.rows[i].x =
                        FMul(RelPct(data[i].x, BaselineOf(i).x),
                             ClaimedWeight(i))

\* C12's case: a revision of 100 percent, weighted by the column w of the
\* baseline frame, which holds 2 where data holds 1.
C12_Witness ==
    /\ mode = "rev" /\ result.status = "ok"
    /\ column.cweight = <<"w">> /\ result.col = "x weighted"
    /\ \E i \in DOMAIN data : \E j \in DOMAIN other :
        /\ i # j
        /\ data[i].date = other[j].date
        /\ data[i].x = Num(2) /\ other[j].x = Num(1)
        /\ data[i].w = Num(1) /\ other[j].w = Num(2)
        /\ result.rows[i].x = Num(200)

----------------------------------------------------------------------------
(* dutils.compare, called with two numbers *)

CompareValues ==
    {NaN, PosInf, NegInf, Num(0 - 1), Num(0), Num(1), Num(2), Rat(1, 2)}

MethodNames == {"relpct", "logpct", "ratio", "diff", "pct", "log", ""}

InitCompare ==
    /\ data = <<>>
    /\ other = <<>>
    /\ NoCall
    /\ NoSeries
    /\ NoWidget
    /\ NoFilter
    /\ NoFinal
    /\ checked = <<>>
    /\ baselineDate = 0
    /\ run = <<>>
    /\ dashboard = <<>>
    /\ stacked = <<>>
    /\ bars = <<>>
    /\ revised = <<>>
    /\ \E a, b \in CompareValues : \E m \in MethodNames :
          comparison = [data |-> a, baseline |-> b, method |-> m,
                      status |-> "none", value |-> NaN]

\* compare(data, baseline, method)
CallCompare ==
    /\ comparison.status = "none"
    /\ LET r == compare(comparison.data, comparison.baseline, comparison.method)
       IN  comparison' = IF Len(r) = 1
                       THEN [comparison EXCEPT !.status = "ValueError"]
                       ELSE [comparison EXCEPT !.status = "ok", !.value = r]
    /\ UNCHANGED <<finalVars,
                   growthVars, signVars, widgetVars, filterVars, checked,
                   baselineDate, run, dashboard, stacked, bars, revised>>

NextCompare == CallCompare

SpecCompare == InitCompare /\ [][NextCompare]_vars

\* ln(q) * 100 for an extended rational q.
Ln100(q) ==
    IF IsFinite(q) /\ q[1] > 0 /\ q # Num(1) THEN <<q[1], q[2], 100>>
    ELSE IF q = Num(1) THEN Num(0)
    ELSE IF q = Num(0) THEN NegInf
    ELSE IF q = PosInf THEN PosInf
    ELSE NaN

\* C13: compare(data, baseline, method) returns (data / baseline - 1) * 100
\* for relpct, data / baseline for ratio, data - baseline for diff and
\* ln(data / baseline) * 100 for logpct, and raises ValueError for any other
\* method.
C13_CompareByMethod ==
    comparison.status # "none" =>
        LET a == comparison.data
            b == comparison.baseline
            m == comparison.method
        IN  IF m \notin {"relpct", "ratio", "diff", "logpct"}
            THEN comparison.status = "ValueError"
            ELSE /\ comparison.status = "ok"
                 /\ m = "relpct" =>
                      comparison.value =
                          FMul(FSub(FDiv(a, b), Num(1)), Num(100))
                 /\ m = "ratio" => comparison.value = FDiv(a, b)
                 /\ m = "diff" => comparison.value = FSub(a, b)
                 /\ m = "logpct" => comparison.value = Ln100(FDiv(a, b))

\* C13's case: logpct of 2 on 1 is 100 * ln(2), where relpct is 100, ratio 2
\* and diff 1.
C13_Witness ==
    /\ comparison.status = "ok" /\ comparison.method = "logpct"
    /\ comparison.data = Num(2) /\ comparison.baseline = Num(1)
    /\ comparison.value = <<2, 1, 100>>
    /\ compare(Num(2), Num(1), "relpct") = Num(100)
    /\ compare(Num(2), Num(1), "ratio") = Num(2)
    /\ compare(Num(2), Num(1), "diff") = Num(1)

----------------------------------------------------------------------------
(* growth_vars, by the names it is called with: the columns of data, and    *)
(* date_var, by and columns.                                               *)

\* None, for a date_var or a by that is not given.
None == "None"

DataColumnNames == {"date", "industry", "gva", "jobs"}
DateVarNames == {None, "date", "when"}
ByNames == {None, "industry", "sector"}
RequestedNames == {"gva", "jobs", "hours"}

\* The message of the assertion on the requested columns.
ColumnsMessage == "Some of [columns] are missing from data columns [columns]"

InitChecked ==
    /\ data = <<>>
    /\ other = <<>>
    /\ NoCall
    /\ NoSeries
    /\ NoWidget
    /\ NoFilter
    /\ NoFinal
    /\ comparison = <<>>
    /\ baselineDate = 0
    /\ run = <<>>
    /\ dashboard = <<>>
    /\ stacked = <<>>
    /\ bars = <<>>
    /\ revised = <<>>
    /\ \E cols \in SUBSET DataColumnNames : \E d \in DateVarNames :
       \E b \in ByNames : \E req \in SUBSET RequestedNames \ {{}} :
          checked = [columns |-> cols, date_var |-> d, by |-> b,
                     requested |-> req, status |-> "none", message |-> "",
                     computed |-> FALSE]

\* The assertions growth_vars opens with, in their order; an assert without
\* a message raises an AssertionError with none.
CheckNames(c) ==
    IF c.date_var # None /\ c.date_var \notin c.columns
    THEN [c EXCEPT !.status = "AssertionError"]
    ELSE IF c.by # None /\ c.by \notin c.columns
    THEN [c EXCEPT !.status = "AssertionError"]
    ELSE IF ~(c.requested \subseteq c.columns)
    THEN [c EXCEPT !.status = "AssertionError", !.message = ColumnsMessage]
    ELSE [c EXCEPT !.status = "ok", !.computed = TRUE]

\* growth_vars(data, columns, date_var, by)
CallGrowthVars ==
    /\ checked.status = "none"
    /\ checked' = CheckNames(checked)
    /\ UNCHANGED <<finalVars,
                   growthVars, signVars, widgetVars, filterVars, comparison,
                   baselineDate, run, dashboard, stacked, bars, revised>>

NextChecked == CallGrowthVars

SpecChecked == InitChecked /\ [][NextChecked]_vars

\* C14: growth_vars raises an AssertionError that carries a message whenever
\* date_var, by, or one of the requested columns is not a column of data,
\* and computes no growth then.
C14_MissingNameAssertsWithMessage ==
    checked.status # "none" =>
        ((\/ checked.date_var # None /\ checked.date_var \notin checked.columns
          \/ checked.by # None /\ checked.by \notin checked.columns
          \/ ~(checked.requested \subseteq checked.columns))
         => /\ checked.status = "AssertionError"
            /\ checked.message # ""
            /\ ~checked.computed)

----------------------------------------------------------------------------
(* growth_vars with a baseline given as a mapping {date_var: d} *)

\* The sum of the values of x in the rows S of frame f.
RECURSIVE SumX(_, _)
SumX(f, S) ==
    IF S = {} THEN Num(0)
    ELSE LET j == CHOOSE j \in S : TRUE
         IN  FAdd(f[j].x, SumX(f, S \ {j}))

\* data[baseline_eq.all(1)].groupby(by).mean(numeric_only=True), for group
\* g: the mean of the values the rows of g with the date d hold; missing
\* when they hold none.
GroupMeanAt(f, g, d) ==
    LET S == {j \in DOMAIN f :
                 f[j].by = g /\ f[j].date = d /\ ~IsNaN(f[j].x)}
    IN  IF S = {} THEN NaN ELSE FDiv(SumX(f, S), Num(Cardinality(S)))

\* data.drop(columns=...).join(baseline_values_by_split, on=by)
JoinMeansOnBy(f, d) ==
    [i \in DOMAIN f |-> SetX(f[i], GroupMeanAt(f, f[i].by, d))]

\* baseline a dict: growth relative to the rows with the values it gives.
BaselineDateGrowth(f, by, d, col, method) ==
    IF by
    THEN DfWeightedDiff(f, JoinMeansOnBy(f, d), "idx", col, method)
    ELSE [status |-> "NotImplementedError", col |-> col.cname, rows |-> <<>>]

\* growth_vars(data, columns=["x"], date_var="date", baseline={"date": d}),
\* with by="by" or without
CallBaselineDate ==
    /\ mode = "none"
    /\ \E by \in BOOLEAN : \E d \in DateValues :
        /\ useBy' = by
        /\ baselineDate' = d
        /\ result' = BaselineDateGrowth(data, by, d, column, "relpct")
    /\ mode' = "date"
    /\ UNCHANGED <<finalVars,
                   data, other, periods, column, signVars, widgetVars,
                   filterVars, comparison, checked, run, dashboard,
                   stacked, bars, revised>>

NextBaselineDate == CallBaselineDate

SpecBaselineDate == Init /\ [][NextBaselineDate]_vars

\* C15: growth_vars called with a date_var, no by, and the baseline
\* {date_var: d} returns, for every row, the growth of the requested column
\* from its value in the row whose date is d.  Stated for the frames that
\* have one row of date d, which holds a value.
C15_GrowthFromRowOfDate ==
    (mode = "date" /\ ~useBy) =>
        \A b \in DOMAIN data :
            (/\ data[b].date = baselineDate /\ HoldsValue(b)
             /\ \A j \in DOMAIN data : data[j].date = baselineDate => j = b)
            => /\ result.status = "ok"
               /\ Len(result.rows) = Len(data)
               /\ \A i \in DOMAIN data :
                     result.rows[i].x = RelPct(data[i].x, data[b].x)

----------------------------------------------------------------------------
(* The end of main() of the command line programs: set_output_file, then    *)
(* show or save.  A file name is [stem, suffix]: the name without its last *)
(* suffix, and the suffix, dot included, "" for none.  None and the empty  *)
(* name are both ["", ""].                                                 *)

NoName == [stem |-> "", suffix |-> ""]

DataFileNames ==
    {[stem |-> st, suffix |-> su] : st \in {"data", "gva"},
                                    su \in {".csv", ".txt", ""}}

SaveNames ==
    {[stem |-> st, suffix |-> su] : st \in {"out", "v1"},
                                    su \in {".html", ".htm", ".2", ""}}

NameOf(p) == p.stem \o p.suffix

\* The name with its suffix left as it is.
WithSuffixKept(p, suffix) == p

\* Path(p).with_suffix(suffix)
WithSuffix(p, suffix) == [p EXCEPT !.suffix = suffix]

\* set_output_file(args.save or args.datafile, title): the name of the file
\* that show or save writes.
OutputFile(save, datafile) ==
    LET outfile == IF save # NoName THEN save ELSE datafile
    IN  NameOf(WithSuffix(outfile, ".html"))

InitRun ==
    /\ data = <<>>
    /\ other = <<>>
    /\ NoCall
    /\ NoSeries
    /\ NoWidget
    /\ NoFilter
    /\ NoFinal
    /\ comparison = <<>>
    /\ checked = <<>>
    /\ baselineDate = 0
    /\ dashboard = <<>>
    /\ stacked = <<>>
    /\ bars = <<>>
    /\ revised = <<>>
    /\ \E d \in DataFileNames : \E sv \in SaveNames \cup {NoName} :
       \E sh \in BOOLEAN :
          run = [datafile |-> d, save |-> sv, show |-> sh, ended |-> FALSE,
                 written |-> {}, shown |-> {}]

\* main(), from set_output_file to its end: show(app) saves the file and
\* opens it in a browser, save(app) saves it.
RunToEnd ==
    /\ ~run.ended
    /\ LET outfile == OutputFile(run.save, run.datafile)
       IN  run' = [run EXCEPT !.ended = TRUE,
                              !.written = {outfile},
                              !.shown = IF run.show THEN {outfile} ELSE {}]
    /\ UNCHANGED <<finalVars,
                   growthVars, signVars, widgetVars, filterVars, comparison,
                   checked, baselineDate, dashboard, stacked, bars, revised>>

NextRun == RunToEnd

SpecRun == InitRun /\ [][NextRun]_vars

----------------------------------------------------------------------------
(* The dashboard program: one component option, -c NAME, --c NAME CWEIGHT   *)
(* or ---c NAME CWEIGHT CNAME, and the growth charts made from it.  The    *)
(* data has the one column x; CNAME is modelled by the text it puts after  *)
(* {name}.                                                                 *)

ComponentOptions ==
    {<<"x">>, <<"x", "-1">>, <<"x", "2">>, <<"x", "-1", " rev">>,
     <<"x", "0.5", " (half)">>}

\* GrowthComponent(*iv), the strings of the option as they were given:
\* cweight is 1 and cname_format "{name}" when they are not given.
ComponentOf(iv) ==
    GrowthComponent(iv[1],
                    IF Len(iv) >= 2 THEN <<iv[2]>> ELSE Num(1),
                    IF Len(iv) >= 3 THEN iv[3] ELSE "")

InitDashboard ==
    /\ \E n \in 1..MaxDashboardRows : \E t \in Rows(n, XValues) :
          data = Frame(t)
    /\ other = <<>>
    /\ NoCall
    /\ NoSeries
    /\ NoWidget
    /\ NoFilter
    /\ NoFinal
    /\ comparison = <<>>
    /\ checked = <<>>
    /\ baselineDate = 0
    /\ run = <<>>
    /\ stacked = <<>>
    /\ bars = <<>>
    /\ revised = <<>>
    /\ \E iv \in ComponentOptions :
          dashboard = [iv |-> iv, status |-> "none", bars |-> <<>>,
                       cumulative |-> NoResult, growth |-> NoResult]

\* main() and dashboard_tabs(): the component of the option, its cumulative
\* and period-on-period growth within the groups of by, and the bars of the
\* growth charts, one for a component, called by its cname.
RunDashboard ==
    /\ dashboard.status = "none"
    /\ LET component == ComponentOf(dashboard.iv)
       IN  dashboard' =
              [dashboard EXCEPT
                 !.status = "ok",
                 !.bars = <<component.cname>>,
                 !.cumulative =
                     CumulativeGrowth(data, TRUE, component, "relpct"),
                 !.growth =
                     PeriodGrowth(data, TRUE, 1, component, "relpct")]
    /\ UNCHANGED <<finalVars,
                   growthVars, signVars, widgetVars, filterVars, comparison,
                   checked, baselineDate, run, stacked, bars, revised>>

NextDashboard == RunDashboard

SpecDashboard == InitDashboard /\ [][NextDashboard]_vars

\* The period-on-period growth of x within its group, for the row of data
\* that row k of frame f holds.
PlainGrowth(f, k) ==
    LET i == f[k].row
        before == {j \in DOMAIN data :
                      /\ data[j].by = data[i].by
                      /\ \/ data[j].date < data[i].date
                         \/ data[j].date = data[i].date /\ j < i}
    IN  IF before = {} THEN NaN
        ELSE LET b == CHOOSE b \in before : \A j \in before :
                          \/ data[j].date < data[b].date
                          \/ data[j].date = data[b].date /\ j <= b
             IN  RelPct(data[i].x, data[b].x)

\* The growth of the component is the growth of its column with the sign
\* reversed.
SignReversedGrowth ==
    /\ dashboard.growth.status = "ok"
    /\ \A k \in DOMAIN dashboard.growth.rows :
          dashboard.growth.rows[k].x =
              FMul(PlainGrowth(dashboard.growth.rows, k), Num(0 - 1))

\* C17: in the dashboard program a component given as --c NAME -1 has its
\* growth sign-reversed, and is on the growth charts under the name
\* "NAME (sign reversed)".
C17_SignReversedByName ==
    (dashboard.status = "ok" /\ dashboard.iv = <<"x", "-1">>) =>
        /\ SignReversedGrowth
        /\ dashboard.bars = <<"x (sign reversed)">>
        /\ dashboard.growth.col = "x (sign reversed)"
        /\ dashboard.cumulative.col = "x (sign reversed)"

\* The part of C17 that holds.
C17_GrowthIsSignReversed ==
    (dashboard.status = "ok" /\ dashboard.iv = <<"x", "-1">>) =>
        SignReversedGrowth

----------------------------------------------------------------------------
(* stack_up and stack_down: the expressions StackUp and StackDown, as the   *)
(* browser evaluates them on one row of a data source.  The row is a       *)
(* function from the names of the source's columns to the row's values.    *)

FieldNames == {"f1", "f2", "f3"}

StackValues == {NaN, Num(0 - 2), Num(0 - 1), Num(0), Num(1)}

\* a > b, as numbers compare: a comparison with NaN is false.
FGreater(a, b) ==
    LET d == FSub(a, b)
    IN  ~IsNaN(d) /\ d[1] > 0

\* The loop over j of StackRectified._code_template from field j on, with
\* stacked_xs[i] so far: a field of the source whose value is beyond the
\* threshold adds its distance from it, another field adds nothing.
RECURSIVE StackFrom(_, _, _, _, _, _)
StackFrom(fields, j, comparator, threshold, source, stacked_x) ==
    IF j > Len(fields) THEN stacked_x
    ELSE LET field == fields[j]
             field_value == source[field]
             beyond == /\ field \in DOMAIN source
                       /\ IF comparator = ">"
                          THEN FGreater(field_value, threshold)
                          ELSE FGreater(threshold, field_value)
         IN  StackFrom(fields, j + 1, comparator, threshold, source,
                       IF beyond
                       THEN FAdd(stacked_x, FSub(field_value, threshold))
                       ELSE stacked_x)

\* StackRectified: stacked_xs[i] starts at the threshold.
StackRectified(fields, comparator, threshold, source) ==
    StackFrom(fields, 1, comparator, threshold, source, threshold)

\* stack_up(*fields): StackUp(fields, min_value=0)
StackUp(fields, source) == StackRectified(fields, ">", Num(0), source)

\* StackDown with the comparator of StackUp.
StackDownAbove(fields, source) == StackUp(fields, source)

\* stack_down(*fields): StackDown(fields, max_value=0)
StackDown(fields, source) == StackRectified(fields, "<", Num(0), source)

InitStack ==
    /\ data = <<>>
    /\ other = <<>>
    /\ NoCall
    /\ NoSeries
    /\ NoWidget
    /\ NoFilter
    /\ NoFinal
    /\ comparison = <<>>
    /\ checked = <<>>
    /\ baselineDate = 0
    /\ run = <<>>
    /\ dashboard = <<>>
    /\ bars = <<>>
    /\ revised = <<>>
    /\ \E n \in 0..MaxFields : \E fields \in [1..n -> FieldNames] :
       \E cols \in SUBSET FieldNames : \E source \in [cols -> StackValues] :
          stacked = [fields |-> fields, source |-> source,
                     status |-> "none", up |-> NaN, down |-> NaN]

\* The browser evaluates stack_up(*fields) and stack_down(*fields).
EvaluateStacks ==
    /\ stacked.status = "none"
    /\ stacked' = [stacked EXCEPT
                      !.status = "ok",
                      !.up = StackUp(stacked.fields, stacked.source),
                      !.down = StackDown(stacked.fields, stacked.source)]
    /\ UNCHANGED <<finalVars,
                   growthVars, signVars, widgetVars, filterVars, comparison,
                   checked, baselineDate, run, dashboard, bars, revised>>

NextStack == EvaluateStacks

SpecStack == InitStack /\ [][NextStack]_vars

\* The sum of the values the row holds in the fields from place j on that
\* are in set S, a field counted as often as it is listed; fields that are
\* no column of the source are left out.
RECURSIVE SumOfFields(_, _)
SumOfFields(j, S) ==
    IF j > Len(stacked.fields) THEN Num(0)
    ELSE LET f == stacked.fields[j]
             rest == SumOfFields(j + 1, S)
         IN  IF f \in DOMAIN stacked.source /\ stacked.source[f] \in S
             THEN FAdd(stacked.source[f], rest)
             ELSE rest

PositiveValues == {v \in StackValues : ~IsNaN(v) /\ v[1] > 0}
NegativeValues == {v \in StackValues : ~IsNaN(v) /\ v[1] < 0}

\* C18, as claimed: stack_up is the sum of the positive values among the
\* fields and stack_down the sum of the negative ones, fields that are no
\* column of the source adding nothing, and the two added together are the
\* sum of all the values of the fields.
C18_UpPlusDownIsSumOfAll ==
    stacked.status = "ok" =>
        /\ stacked.up = SumOfFields(1, PositiveValues)
        /\ stacked.down = SumOfFields(1, NegativeValues)
        /\ FAdd(stacked.up, stacked.down) = SumOfFields(1, StackValues)

\* C18, amended: the two added together are the sum of the values that are
\* not missing; a missing value (NaN) is neither above nor below the
\* threshold and adds nothing, where a sum that takes it in is NaN.
C18_UpPlusDownIsSumOfPresent ==
    stacked.status = "ok" =>
        /\ stacked.up = SumOfFields(1, PositiveValues)
        /\ stacked.down = SumOfFields(1, NegativeValues)
        /\ FAdd(stacked.up, stacked.down) =
              SumOfFields(1, StackValues \ {NaN})

\* C18's case: three fields, one holding 1, one holding -2 and one that is
\* no column of the source: stacked up they give 1, stacked down -2.
C18_Witness ==
    /\ stacked.status = "ok"
    /\ stacked.fields = <<"f1", "f2", "f3">>
    /\ DOMAIN stacked.source = {"f1", "f2"}
    /\ stacked.source["f1"] = Num(1) /\ stacked.source["f2"] = Num(0 - 2)
    /\ stacked.up = Num(1) /\ stacked.down = Num(0 - 2)

----------------------------------------------------------------------------
(* vbar_stack_updown and hbar_stack_updown.  A renderer is the call of      *)
(* fig.vbar or fig.hbar that made it: [glyph, wrapper, key1, key2, name,   *)
(* color], wrapper being stack_up or stack_down and key1 and key2 the      *)
(* fields it is applied to for bottom and top, or left and right.          *)

ColorNames == {"blue", "red", "green"}

\* A keyword value: a list with one element for a stacker, or one value.
KeywordValues(n) ==
    {[isList |-> TRUE, list |-> l] : l \in [1..n -> ColorNames]}
    \cup {[isList |-> FALSE, list |-> <<c>>] : c \in ColorNames}

\* val[i] if isinstance(val, (list, tuple)) else val, i counted from 1
KeywordAt(val, i) == IF val.isList THEN val.list[i] ELSE val.list[1]

\* accumulate_list(stackers) and pairwise: the i-th pair is the first i - 1
\* stackers and the first i.
\* double_stack(stackers, key1, key2, color=...): its i-th dict.
DoubleStack(stackers, color, i) ==
    [key1 |-> SubSeq(stackers, 1, i - 1),
     key2 |-> SubSeq(stackers, 1, i),
     name |-> stackers[i],
     color |-> KeywordAt(color, i)]

\* The place in the list of double_stack_updown's dicts of the one made for
\* stacker i by wrapper w (1 for stack_up, 2 for stack_down), were all the
\* dicts of stack_up made first.
PlaceUpFirst(n, i, w) == (w - 1) * n + i

\* Its place: for every dict of double_stack, one for stack_up and then one
\* for stack_down.
Place(n, i, w) == 2 * (i - 1) + w

Wrappers == <<"stack_up", "stack_down">>

\* double_stack_updown, and a renderer made from each of its dicts.
StackUpdown(glyph, stackers, color) ==
    LET n == Len(stackers)
    IN  [k \in 1..(2 * n) |->
            LET i == CHOOSE i \in 1..n : \E w \in 1..2 : Place(n, i, w) = k
                w == CHOOSE w \in 1..2 : Place(n, i, w) = k
                dstack == DoubleStack(stackers, color, i)
            IN  [glyph |-> glyph, wrapper |-> Wrappers[w],
                 key1 |-> dstack.key1, key2 |-> dstack.key2,
                 name |-> dstack.name, color |-> dstack.color]]

InitBars ==
    /\ data = <<>>
    /\ other = <<>>
    /\ NoCall
    /\ NoSeries
    /\ NoWidget
    /\ NoFilter
    /\ NoFinal
    /\ comparison = <<>>
    /\ checked = <<>>
    /\ baselineDate = 0
    /\ run = <<>>
    /\ dashboard = <<>>
    /\ stacked = <<>>
    /\ revised = <<>>
    /\ \E n \in 1..MaxStackers : \E stackers \in [1..n -> FieldNames] :
       \E color \in KeywordValues(n) :
          bars = [stackers |-> stackers, color |-> color, glyph |-> "",
                  renderers |-> <<>>]

\* vbar_stack_updown(fig, stackers, color=color)
CallVbarStackUpdown ==
    /\ bars.glyph = ""
    /\ bars' = [bars EXCEPT
                  !.glyph = "vbar",
                  !.renderers = StackUpdown("vbar", bars.stackers, bars.color)]
    /\ UNCHANGED <<finalVars,
                   growthVars, signVars, widgetVars, filterVars, comparison,
                   checked, baselineDate, run, dashboard, stacked,
                   revised>>

\* hbar_stack_updown(fig, stackers, color=color)
CallHbarStackUpdown ==
    /\ bars.glyph = ""
    /\ bars' = [bars EXCEPT
                  !.glyph = "hbar",
                  !.renderers = StackUpdown("hbar", bars.stackers, bars.color)]
    /\ UNCHANGED <<finalVars,
                   growthVars, signVars, widgetVars, filterVars, comparison,
                   checked, baselineDate, run, dashboard, stacked,
                   revised>>

NextBars ==
    \/ CallVbarStackUpdown
    \/ CallHbarStackUpdown

SpecBars == InitBars /\ [][NextBars]_vars

\* The call the docstring lists for stacker i and a wrapper.
DocstringCall(i, wrapper) ==
    [glyph |-> bars.glyph, wrapper |-> wrapper,
     key1 |-> SubSeq(bars.stackers, 1, i - 1),
     key2 |-> SubSeq(bars.stackers, 1, i),
     name |-> bars.stackers[i],
     color |-> IF bars.color.isList THEN bars.color.list[i]
               ELSE bars.color.list[1]]

----------------------------------------------------------------------------
(* diff.RevisedTS.revisions, on two vintages with the columns x and w.      *)

\* The ways the two columns are listed: x is compared, as a level or as a
\* growth, and w is an index or is not listed.
RevisedColumns ==
    {[levels |-> l, indexes |-> i, growths |-> g] :
        l \in {<<>>, <<"x">>}, i \in {<<>>, <<"w">>}, g \in {<<>>, <<"x">>}}

Listed(columns, name) == \E k \in DOMAIN columns : columns[k] = name

\* The result with the columns of indexes left as growth_vars gave them.
IndexesKept(rows, indexes) == rows

\* result[self.indexes] = pd.NA
IndexesMissing(rows, indexes) ==
    [k \in DOMAIN rows |->
        IF Listed(indexes, "w") THEN [rows[k] EXCEPT !.w = NaN] ELSE rows[k]]

\* RevisedTS.revisions(): growth_vars(self.new, baseline=self.original,
\* by=self.by, date_var=self.date, columns=self.levels + self.growths), the
\* columns of indexes then made missing.
Revisions(new, orig, by, r) ==
    LET columns == r.levels \o r.growths
        grown == RevisionGrowth(new, orig, by, PlainColumn(columns[1]),
                                "relpct")
    IN  [grown EXCEPT !.rows = IndexesMissing(grown.rows, r.indexes)]

\* RevisedTS(new, original=original, date="date", levels=..., indexes=...,
\* growths=...): the two vintages are time series, and x is listed once.
InitRevisions ==
    /\ \E n \in 1..MaxWeightedRows : \E t \in WeightedRows(n) :
          data = WeightedFrame(t) /\ UniqueKeys(data, FALSE)
    /\ \E n \in 1..MaxWeightedRows : \E t \in WeightedRows(n) :
          other = WeightedFrame(t) /\ UniqueKeys(other, FALSE)
    /\ NoCall
    /\ NoSeries
    /\ NoWidget
    /\ NoFilter
    /\ NoFinal
    /\ comparison = <<>>
    /\ checked = <<>>
    /\ baselineDate = 0
    /\ run = <<>>
    /\ dashboard = <<>>
    /\ stacked = <<>>
    /\ bars = <<>>
    /\ \E r \in RevisedColumns :
          /\ Len(r.levels \o r.growths) = 1
          /\ revised = r

\* revts.revisions(), for a RevisedTS with by or without
CallRevisions ==
    /\ mode = "none"
    /\ \E by \in BOOLEAN :
        /\ useBy' = by
        /\ result' = Revisions(data, other, by, revised)
    /\ mode' = "revisions"
    /\ UNCHANGED <<finalVars,
                   data, other, periods, column, signVars, widgetVars,
                   filterVars, comparison, checked, baselineDate, run,
                   dashboard, stacked, bars, revised>>

NextRevisions == CallRevisions

SpecRevisions == InitRevisions /\ [][NextRevisions]_vars

\* C20: RevisedTS.revisions compares the new vintage with the original one
\* on the columns of levels and growths only (x: its relpct growth from the
\* row of the original with the same date, missing with no such row); a
\* column of indexes is entirely missing in the result and a column that is
\* not listed is as in the new vintage; and the result has the shape of the
\* new vintage: its rows, and its columns.
C20_RevisionsOfLevelsAndGrowthsOnly ==
    mode = "revisions" =>
        /\ result.status = "ok"
        /\ Len(result.rows) = Len(data)
        /\ \A i \in DOMAIN data :
            LET same == {j \in DOMAIN other : other[j].date = data[i].date}
                base == IF same = {} THEN NaN
                        ELSE other[CHOOSE j \in same : TRUE].x
            IN  /\ DOMAIN result.rows[i] = DOMAIN data[i]
                /\ result.rows[i].date = data[i].date
                /\ result.rows[i].by = data[i].by
                /\ result.rows[i].x = RelPct(data[i].x, base)
                /\ result.rows[i].w =
                      IF Listed(revised.indexes, "w") THEN NaN
                      ELSE data[i].w

\* C20's case: two rows revised against an original in which their dates
\* come the other way round, x a level and w an index: x has grown by 100
\* percent at one date, and w, which differs between the vintages, is
\* missing.
C20_Witness ==
    /\ mode = "revisions" /\ result.status = "ok"
    /\ revised.levels = <<"x">> /\ revised.indexes = <<"w">>
    /\ Len(data) = 2 /\ Len(other) = 2
    /\ data[1].date = other[2].date /\ data[2].date = other[1].date
    /\ data[1].x = Num(2) /\ other[2].x = Num(1)
    /\ data[1].w = Num(2) /\ other[2].w = Num(1)
    /\ result.rows[1].x = Num(100)
    /\ \A k \in DOMAIN result.rows : IsNaN(result.rows[k].w)

----------------------------------------------------------------------------
(* The building of the snapshot chart: the steps of xpsnapcomp.main and of  *)
(* figsnapcomp from the widget for the dates to the linking of the widget   *)
(* to the filters of the chart.                                             *)

MaxDates == 3

\* list(pd.Series(options).unique()): the values from place i on that are
\* not in seen, in order of appearance.
RECURSIVE UniqueFrom(_, _, _)
UniqueFrom(values, i, seen) ==
    IF i > Len(values) THEN <<>>
    ELSE IF values[i] \in seen THEN UniqueFrom(values, i + 1, seen)
    ELSE <<values[i]>> \o UniqueFrom(values, i + 1, seen \cup {values[i]})

Unique(values) == UniqueFrom(values, 1, {})

\* The parameters of link_widgets_to_groupfilters.
LinkParameters == {"widgets", "view", "source", "filters"}

\* A call with keyword arguments raises TypeError when one of the keywords
\* is not the name of a parameter.
Binds(keywords, parameters) == keywords \subseteq parameters

\* The keywords link_widget_to_snapcomp_figure calls
\* link_widgets_to_groupfilters with.
SnapcompLinkKeywords == {"source", "filter"}

\* The group of a filter left as it was.
SyncedGroupKept(value, g) == g

\* cds_filter.group = widget.value
SyncedGroup(value, g) == value

\* The dates of the rows of the data, whether the chart is to start at the
\* last date (-L), and the start_value filter_widget is called with.
InitChart ==
    /\ data = <<>>
    /\ other = <<>>
    /\ NoCall
    /\ NoSeries
    /\ NoWidget
    /\ NoFilter
    /\ NoTools
    /\ heatmap = <<>>
    /\ command = <<>>
    /\ unpacked = <<>>
    /\ constructed = <<>>
    /\ \E n \in 1..MaxDates : \E dates \in [1..n -> OptionNames] :
       \E last \in BOOLEAN : \E start_value \in {"first", "last"} :
          chart = [dates |-> dates, last |-> last,
                   start_value |-> start_value, step |-> "read",
                   status |-> "running"]

\* filter_widget, and main's "if args.last".  SlideSelect.__new__ starts at
\* the first option, and the setter of SlideSelect.value sets the slider to
\* options.index(value) and the drop-down to value.
MakeDateWidget ==
    /\ chart # <<>> /\ chart.step = "read"
    /\ options' = Unique(chart.dates)
    /\ LET value == IF chart.start_value = "last" \/ chart.last
                    THEN options'[Len(options')]
                    ELSE options'[1]
       IN  /\ sliderValue' = IndexOf(options', value)
           /\ selectValue' = value
    /\ chart' = [chart EXCEPT !.step = "widget"]
    /\ UNCHANGED <<growthVars, signVars, visible, recentIndex, previousIndex,
                   stack, changed, filterVars, toolVars, heatmap, command,
                   unpacked, constructed>>

\* components_figure: factor_view(source, by) makes one GroupFilter, whose
\* group is the first value of the date column.
MakeView ==
    /\ chart # <<>> /\ chart.step = "widget"
    /\ group' = chart.dates[1]
    /\ chart' = [chart EXCEPT !.step = "figure"]
    /\ UNCHANGED <<growthVars, signVars, widgetVars, emitted, toolVars,
                   heatmap, command, unpacked, constructed>>

\* link_widget_to_snapcomp_figure, its loop over the filters of the view.
SyncFilters ==
    /\ chart # <<>> /\ chart.step = "figure"
    /\ group' = SyncedGroup(selectValue, group)
    /\ chart' = [chart EXCEPT !.step = "synced"]
    /\ UNCHANGED <<growthVars, signVars, widgetVars, emitted, toolVars,
                   heatmap, command, unpacked, constructed>>

\* link_widget_to_snapcomp_figure, its call of link_widgets_to_groupfilters,
\* which attaches callbacks and changes no value; then the rest of main.
LinkFilters ==
    /\ chart # <<>> /\ chart.step = "synced"
    /\ chart' = [chart EXCEPT
                   !.step = "ended",
                   !.status = IF Binds(SnapcompLinkKeywords, LinkParameters)
                              THEN "saved" ELSE "TypeError"]
    /\ UNCHANGED <<growthVars, signVars, widgetVars, filterVars, toolVars,
                   heatmap, command, unpacked, constructed>>

NextChart ==
    \/ MakeDateWidget
    \/ MakeView
    \/ SyncFilters
    \/ LinkFilters

SpecChart == InitChart /\ [][NextChart]_vars

\* The chart is to start at the last date, and its filters have been brought
\* in line with the widget.
StartsAtLast ==
    /\ chart # <<>>
    /\ chart.last \/ chart.start_value = "last"
    /\ chart.step \in {"synced", "ended"}

----------------------------------------------------------------------------
(* A heatmap in the browser: the selection of its data source, and the      *)
(* drop-down of a SlideSelect that figheatmap linked to one of its axes.    *)

MaxCells == 3
MaxSelected == 2

\* What the browser gives for a place a list does not have.
Undefined == "undefined"

\* textwrap.shorten(name, 15, placeholder=".."), c standing for a name of
\* more than 15 characters and the others for shorter ones.
Shorten(name) == IF name = "c" THEN "c.." ELSE name

\* The callback with the first of the selected indices.
SetFromFirstSelected(values, indices) == values[indices[1] + 1]

\* _JSCB_SET_FROM_LAST_SELECTED, with some index selected:
\* source.data[column][indices[indices.length - 1]]
SetFromLastSelected(values, indices) == values[indices[Len(indices)] + 1]

\* The selections of at most n of the rows of a source of k rows, in the
\* order the rows were selected: the indices are the browser's, from 0.
Selections(k, n) ==
    {s \in UNION {[1..m -> 0..(k - 1)] : m \in 0..n} :
        \A i, j \in DOMAIN s : i # j => s[i] # s[j]}

\* The callbacks of the drop-down's value: SlideSelect's own.
HandleCallbacks == <<"select_to_slider">>

\* dashboard_tabs: the widget's options are the values of a column of the
\* data, and the source of a heatmap holds that column, of the growth
\* heatmap's split factor shortened.  Nothing is selected, and the widget is
\* at any of its options.
InitHeatmap ==
    /\ data = <<>>
    /\ other = <<>>
    /\ NoCall
    /\ NoSeries
    /\ NoFilter
    /\ NoTools
    /\ chart = <<>>
    /\ command = <<>>
    /\ unpacked = <<>>
    /\ constructed = <<>>
    /\ \E n \in 1..MaxCells : \E names \in [1..n -> OptionNames] :
       \E shortened \in BOOLEAN :
          /\ options = Unique(names)
          /\ heatmap = [column |-> [i \in 1..n |->
                                      IF shortened THEN Shorten(names[i])
                                      ELSE names[i]],
                        indices |-> <<>>, thrown |-> FALSE]
    /\ \E k \in DOMAIN options :
          /\ selectValue = options[k]
          /\ sliderValue = IndexOf(options, options[k])
    /\ visible = <<>>
    /\ recentIndex = {}
    /\ previousIndex = {}
    /\ stack = <<>>
    /\ changed = FALSE

\* The selection of the source changes, and the callback of
\* jscb_set_from_selection runs: tgt.value = new_value when some index is
\* selected, nothing otherwise.
SelectionChanges ==
    /\ heatmap # <<>> /\ stack = <<>>
    /\ \E indices \in Selections(Len(heatmap.column), MaxSelected) :
        /\ indices # heatmap.indices
        /\ heatmap' = [heatmap EXCEPT !.indices = indices]
        /\ selectValue' =
              IF indices # <<>>
              THEN SetFromLastSelected(heatmap.column, indices)
              ELSE selectValue
    /\ stack' = IF selectValue' # selectValue THEN HandleCallbacks ELSE <<>>
    /\ changed' = (changed \/ selectValue' # selectValue)
    /\ UNCHANGED <<growthVars, signVars, options, sliderValue, visible,
                   recentIndex, previousIndex, filterVars, toolVars, chart,
                   command, unpacked, constructed>>

\* The slider's callback: other.value = other.options[this.value].  With the
\* slider at -1 the option is undefined, which the drop-down takes as its
\* value or refuses by throwing, as the version of Bokeh has it.
RunSliderToHandle ==
    /\ heatmap # <<>>
    /\ stack # <<>> /\ Head(stack) = "slider_to_select"
    /\ IF sliderValue \in 0..(Len(options) - 1)
       THEN /\ selectValue' = SliderToSelect(options, sliderValue)
            /\ stack' = IF selectValue' # selectValue
                        THEN HandleCallbacks \o Tail(stack)
                        ELSE Tail(stack)
            /\ UNCHANGED heatmap
       ELSE \/ /\ selectValue' = Undefined
               /\ stack' = IF selectValue' # selectValue
                           THEN HandleCallbacks \o Tail(stack)
                           ELSE Tail(stack)
               /\ UNCHANGED heatmap
            \/ /\ heatmap' = [heatmap EXCEPT !.thrown = TRUE]
               /\ stack' = <<>>
               /\ UNCHANGED selectValue
    /\ changed' = (changed \/ selectValue' # selectValue)
    /\ UNCHANGED <<growthVars, signVars, options, sliderValue, visible,
                   recentIndex, previousIndex, filterVars, toolVars, chart,
                   command, unpacked, constructed>>

NextHeatmap ==
    \/ SelectionChanges
    \/ RunSelectToSlider
    \/ RunSliderToHandle

SpecHeatmap == InitHeatmap /\ [][NextHeatmap]_vars

----------------------------------------------------------------------------
(* A run of stacks, snapcomp or tscomp from the parsing of its arguments to *)
(* its exit status: the sub-package's main, or the script of the same name  *)
(* that the tests run.                                                      *)

ProgramNames == {"stacks", "snapcomp", "tscomp"}

\* xplorts/stacks/xpstacks.py and its like, or xplorts/stacks.py and its
\* like.
ProgramForms == {"package", "script"}

\* The columns of the CSV file, and the names the column flags may give.
CsvColumns == {"date", "industry", "gva"}
FlagNames == {"date", "industry", "sector"}

\* The keywords a program calls link_widgets_to_groupfilters with, next to
\* the widget it passes by position.
LinkKeywords(program, form) ==
    IF form = "package" THEN {"source", "filter"}
    ELSE IF program = "stacks" THEN {"view"}
    ELSE {"source", "view"}

\* The exit status of python: 0 when main returns, 1 when it raises.
ExitStatus(status) == IF status = "ok" THEN 0 ELSE 1

InitCommand ==
    /\ data = <<>>
    /\ other = <<>>
    /\ NoCall
    /\ NoSeries
    /\ NoWidget
    /\ NoFilter
    /\ NoTools
    /\ chart = <<>>
    /\ heatmap = <<>>
    /\ unpacked = <<>>
    /\ constructed = <<>>
    /\ \E p \in ProgramNames : \E f \in ProgramForms :
       \E flag \in FlagNames : \E sv \in {NoName, [stem |-> "out",
                                                   suffix |-> ".html"]} :
       \E sh \in BOOLEAN :
          command = [program |-> p, form |-> f, selector |-> flag,
                     datafile |-> [stem |-> "data", suffix |-> ".csv"],
                     save |-> sv, show |-> sh, step |-> "parsed",
                     status |-> "running", exit |-> {}, written |-> {}]

\* pd.read_csv(args.datafile, dtype=str), and the output file's name.
ReadData ==
    /\ command # <<>> /\ command.step = "parsed"
    /\ command' = [command EXCEPT !.step = "read"]
    /\ UNCHANGED <<growthVars, signVars, widgetVars, filterVars, toolVars,
                   chart, heatmap, unpacked, constructed>>

\* The selector widget over the values of the column a flag names:
\* data[byvar] raises KeyError when the data has no such column.
MakeSelector ==
    /\ command # <<>> /\ command.step = "read"
    /\ command' =
          IF command.selector \in CsvColumns
          THEN [command EXCEPT !.step = "widget"]
          ELSE [command EXCEPT !.step = "ended", !.status = "KeyError",
                               !.exit = {ExitStatus("KeyError")}]
    /\ UNCHANGED <<growthVars, signVars, widgetVars, filterVars, toolVars,
                   chart, heatmap, unpacked, constructed>>

\* The call of link_widgets_to_groupfilters.
LinkSelector ==
    /\ command # <<>> /\ command.step = "widget"
    /\ command' =
          IF Binds(LinkKeywords(command.program, command.form),
                   LinkParameters)
          THEN [command EXCEPT !.step = "linked"]
          ELSE [command EXCEPT !.step = "ended", !.status = "TypeError",
                               !.exit = {ExitStatus("TypeError")}]
    /\ UNCHANGED <<growthVars, signVars, widgetVars, filterVars, toolVars,
                   chart, heatmap, unpacked, constructed>>

\* The rest of main: show(app) or save(app), and sys.exit(main()).
FinishCommand ==
    /\ command # <<>> /\ command.step = "linked"
    /\ command' = [command EXCEPT
                     !.step = "ended", !.status = "ok",
                     !.exit = {ExitStatus("ok")},
                     !.written = {OutputFile(command.save,
                                             command.datafile)}]
    /\ UNCHANGED <<growthVars, signVars, widgetVars, filterVars, toolVars,
                   chart, heatmap, unpacked, constructed>>

NextCommand ==
    \/ ReadData
    \/ MakeSelector
    \/ LinkSelector
    \/ FinishCommand

SpecCommand == InitCommand /\ [][NextCommand]_vars

\* C23: a run of stacks, snapcomp or tscomp on a well-formed CSV file, with
\* column flags that name columns of the file, raises nothing and exits
\* with status 0, through every step of main, the linking of the selector
\* widget to the chart's group filters included.
C23_CommandsExitZero ==
    (/\ command # <<>>
     /\ command.selector \in CsvColumns
     /\ command.step = "ended")
        => /\ command.status = "ok"
           /\ command.exit = {0}

\* What the runs do: with flags that name columns, a run ends with status 0
\* and its file written exactly when its call of
\* link_widgets_to_groupfilters uses the function's parameter names, and in
\* a TypeError and status 1, with no file written, otherwise.
C23_ExitByLinkKeywords ==
    (/\ command # <<>>
     /\ command.selector \in CsvColumns
     /\ command.step = "ended")
        => IF command.form = "script"
           THEN /\ command.status = "ok" /\ command.exit = {0}
                /\ command.written # {}
           ELSE /\ command.status = "TypeError" /\ command.exit = {1}
                /\ command.written = {}

----------------------------------------------------------------------------
(* unpack_data_varnames: the names of the data's columns to use, from the   *)
(* command line or from the columns of the data.                            *)

MaxNames == 3
MaxDefaults == 4

ArgNames == <<"date", "by", "values", "more">>
DefaultNames == <<"c1", "c2", "c3", "c4", "c5">>

\* The first n of a sequence.
Prefix(s, n) == [i \in 1..n |-> s[i]]

\* A value of the mapping: a single name, a list of names, or None.
Single(name) == [list |-> FALSE, names |-> <<name>>]
ListOf(names) == [list |-> TRUE, names |-> names]
NoValue == [list |-> FALSE, names |-> <<>>]

\* dict(zip(arg_names, defaults)), and the extra defaults in the last key:
\* defaults[len(arg_names):]
DefaultMapping(arg_names, defaults) ==
    LET n == Len(arg_names)
        d == Len(defaults)
        zipped == IF d < n THEN d ELSE n
    IN  [name \in {arg_names[i] : i \in 1..zipped} |->
            LET i == CHOOSE i \in 1..zipped : arg_names[i] = name
            IN  IF d > n /\ i = n
                THEN ListOf(SubSeq(defaults, n + 1, d))
                ELSE Single(defaults[i])]

\* args gives each of arg_names a name or None, and defaults are the
\* columns of the data, or None.
InitUnpack ==
    /\ data = <<>>
    /\ other = <<>>
    /\ NoCall
    /\ NoSeries
    /\ NoWidget
    /\ NoFilter
    /\ NoTools
    /\ chart = <<>>
    /\ heatmap = <<>>
    /\ command = <<>>
    /\ constructed = <<>>
    /\ \E n \in 1..MaxNames :
       \E args \in [{ArgNames[i] : i \in 1..n} -> {None, "gva"}] :
       \E defaults \in {<<None>>} \cup
                       {Prefix(DefaultNames, d) : d \in 0..MaxDefaults} :
          unpacked = [args |-> args, arg_names |-> Prefix(ArgNames, n),
                      defaults |-> defaults, returned |-> FALSE,
                      mapping |-> <<>>]

UnpackDataVarnames ==
    /\ unpacked # <<>> /\ ~unpacked.returned
    /\ LET given == [name \in DOMAIN unpacked.args |->
                        IF unpacked.args[name] = None THEN NoValue
                        ELSE Single(unpacked.args[name])]
       IN  unpacked' =
              [unpacked EXCEPT
                 !.returned = TRUE,
                 !.mapping =
                    IF /\ unpacked.defaults # <<None>>
                       /\ \A name \in DOMAIN unpacked.args :
                             unpacked.args[name] = None
                    THEN DefaultMapping(unpacked.arg_names,
                                        unpacked.defaults)
                    ELSE given]
    /\ UNCHANGED <<growthVars, signVars, widgetVars, filterVars, toolVars,
                   chart, heatmap, command, constructed>>

NextUnpack == UnpackDataVarnames

SpecUnpack == InitUnpack /\ [][NextUnpack]_vars

\* unpack_data_varnames has returned, from a call with defaults and with
\* none of the named arguments supplied.
UnpackedDefaults ==
    /\ unpacked # <<>> /\ unpacked.returned
    /\ unpacked.defaults # <<None>>
    /\ \A name \in DOMAIN unpacked.args : unpacked.args[name] = None

\* The names of the mapping under which a default is found.
NamesHolding(default) ==
    {name \in DOMAIN unpacked.mapping :
        \E k \in DOMAIN unpacked.mapping[name].names :
            unpacked.mapping[name].names[k] = default}

\* C24: when defaults are given and none of the named arguments was
\* supplied, unpack_data_varnames maps the argument names to the defaults in
\* order and, with more defaults than names, puts the extra defaults under
\* the last name: every default is under exactly one name, none is dropped.
C24_EveryDefaultUnderOneName ==
    UnpackedDefaults =>
        LET n == Len(unpacked.arg_names)
            d == Len(unpacked.defaults)
        IN  /\ \A i \in 1..n :
                 (i <= d /\ (i < n \/ d <= n)) =>
                    unpacked.mapping[unpacked.arg_names[i]] =
                        Single(unpacked.defaults[i])
            /\ \A k \in 1..d :
                 Cardinality(NamesHolding(unpacked.defaults[k])) = 1

\* What the call returns: the names before the last are mapped to the
\* defaults in order; the last name holds its own default when there are no
\* more defaults than names, and otherwise the list of the defaults that
\* come after its own, which is under no name.
C24_LastNameHoldsLaterDefaults ==
    UnpackedDefaults =>
        LET n == Len(unpacked.arg_names)
            d == Len(unpacked.defaults)
        IN  /\ \A i \in 1..n :
                 (i <= d /\ (i < n \/ d <= n)) =>
                    unpacked.mapping[unpacked.arg_names[i]] =
                        Single(unpacked.defaults[i])
            /\ d > n =>
                 /\ unpacked.mapping[unpacked.arg_names[n]] =
                       ListOf(SubSeq(unpacked.defaults, n + 1, d))
                 /\ NamesHolding(unpacked.defaults[n]) = {}
            /\ \A k \in 1..d :
                 k # n \/ d <= n =>
                    Cardinality(NamesHolding(unpacked.defaults[k])) = 1

----------------------------------------------------------------------------
(* The constructor of RevisedTS, called with a data frame and the names of  *)
(* its levels, indexes and growths: each of them None, a name or a list of  *)
(* names.                                                                   *)

MaxListed == 2

MeasureNames == {"x", "w"}

\* The columns of the data other than date and by.
MeasureColumns == <<"x", "w">>

\* What may be passed for levels, indexes or growths.
MeasureArguments ==
    {NoValue} \cup {Single(name) : name \in MeasureNames}
        \cup {ListOf(names) :
                names \in UNION {[1..n -> MeasureNames] : n \in 0..MaxListed}}

\* len(v) of a list, and of a str put together from one-letter names.
LenOf(v) == Len(v.names)

\* a + b raises TypeError for a str and a list.
CanAdd(a, b) == a.list = b.list

\* a + b for two lists or for two strs.
Added(a, b) == [list |-> a.list, names |-> a.names \o b.names]

\* The message of the ValueError of __init__.
DifferentColumnsMessage ==
    "Levels, indexes and growths must use different columns"

\* The test of __init__:
\* len(levels) + len(indexes) + len(growths)
\*     != len(levels + indexes + growths)
SharesByLength(levels, indexes, growths) ==
    LenOf(levels) + LenOf(indexes) + LenOf(growths)
        # LenOf(Added(Added(levels, indexes), growths))

\* self.levels, self.indexes and self.growths when the test is made: the
\* placeholders of __new__ are empty lists, and levels are all the measures
\* of the data when neither levels nor indexes is given.
Attribute(given, placeholder) ==
    IF given # NoValue THEN given ELSE placeholder

Levels(levels, indexes) ==
    IF levels = NoValue /\ indexes = NoValue THEN ListOf(MeasureColumns)
    ELSE Attribute(levels, ListOf(<<>>))

InitConstruct ==
    /\ data = <<>>
    /\ other = <<>>
    /\ NoCall
    /\ NoSeries
    /\ NoWidget
    /\ NoFilter
    /\ NoTools
    /\ chart = <<>>
    /\ heatmap = <<>>
    /\ command = <<>>
    /\ unpacked = <<>>
    /\ \E levels, indexes, growths \in MeasureArguments :
          constructed = [levels |-> levels, indexes |-> indexes,
                         growths |-> growths, status |-> "none",
                         message |-> ""]

\* RevisedTS(data, date=..., by=..., levels=..., indexes=..., growths=...)
ConstructRevisedTS ==
    /\ constructed # <<>> /\ constructed.status = "none"
    /\ LET levels == Levels(constructed.levels, constructed.indexes)
           indexes == Attribute(constructed.indexes, ListOf(<<>>))
           growths == Attribute(constructed.growths, ListOf(<<>>))
       IN  constructed' =
              [constructed EXCEPT
                 !.levels = levels, !.indexes = indexes,
                 !.growths = growths,
                 !.status =
                    IF ~CanAdd(levels, indexes)
                         \/ ~CanAdd(Added(levels, indexes), growths)
                    THEN "TypeError"
                    ELSE IF SharesByLength(levels, indexes, growths)
                    THEN "ValueError"
                    ELSE "ok",
                 !.message =
                    IF /\ CanAdd(levels, indexes)
                       /\ CanAdd(Added(levels, indexes), growths)
                       /\ SharesByLength(levels, indexes, growths)
                    THEN DifferentColumnsMessage
                    ELSE ""]
    /\ UNCHANGED <<growthVars, signVars, widgetVars, filterVars, toolVars,
                   chart, heatmap, command, unpacked>>

NextConstruct == ConstructRevisedTS

SpecConstruct == InitConstruct /\ [][NextConstruct]_vars

\* The names of a str or a list.
Names(v) == {v.names[i] : i \in DOMAIN v.names}

\* The constructor has been called, and some column name is in more than one
\* of the levels, indexes and growths of the object.
SharedColumn ==
    /\ constructed # <<>> /\ constructed.status # "none"
    /\ \/ Names(constructed.levels) \cap Names(constructed.indexes) # {}
       \/ Names(constructed.levels) \cap Names(constructed.growths) # {}
       \/ Names(constructed.indexes) \cap Names(constructed.growths) # {}

\* C25: constructing a RevisedTS in which a column name appears in more than
\* one of levels, indexes and growths raises ValueError with the message
\* "Levels, indexes and growths must use different columns".
C25_SharedColumnRaisesValueError ==
    SharedColumn =>
        /\ constructed.status = "ValueError"
        /\ constructed.message = DifferentColumnsMessage

\* What the constructor does: it never raises the ValueError, as the length
\* of three lists put together is the sum of their lengths; it raises
\* TypeError when a str is given next to a list, and nothing otherwise.
C25_NeverRaisesValueError ==
    (constructed # <<>> /\ constructed.status # "none") =>
        /\ constructed.status \in {"ok", "TypeError"}
        /\ constructed.status = "TypeError" <=>
              \/ constructed.levels.list # constructed.indexes.list
              \/ constructed.levels.list # constructed.growths.list

====
